---- MODULE Spec2Model ----
(***************************************************************************)
(* Model of the host-side ITS session (apps/CameraITS/utils/               *)
(* its_session_utils.py): the capture command with its validation,         *)
(* receive loop and reassembly, the single-response commands, and the      *)
(* socket timeout they widen and restore; the convergence loops of do_3a   *)
(* and do_autoframing; __read_response_from_socket byte by byte; and the   *)
(* allocation of the forwarded port under the lock port, by several        *)
(* processes.                                                              *)
(*                                                                         *)
(* Python values are rendered as follows.  A dict key that may be absent   *)
(* is a field holding a sentinel (NoCam, NoFormat, width/height 0,         *)
(* NoExp).  A tag string is the pair (base, suffix) of the image tag and   *)
(* the physical camera id appended to it, which is what the code's         *)
(* startswith / slicing recovers.  A binary buffer is its identity         *)
(* (stream, capture index) and its size in bytes; the identity is what     *)
(* lets the properties say which buffer ended up where.                    *)
(***************************************************************************)
EXTENDS Integers, Sequences, FiniteSets, TLC

\* ------------------------------------------------------------ constants

SOCK_TIMEOUT == 20
SOCK_TIMEOUT_FOR_PERF_MEASURE == 40
EXTRA_SOCK_TIMEOUT == 5
SEC_TO_NSEC == 1000000000
SINGLE_CAPTURE_NCAP == 1

IMAGE_FORMAT_LIST_1 ==
    <<"jpegImage", "rawImage", "raw10Image", "raw12Image", "rawStatsImage",
      "dngImage", "y8Image", "jpeg_rImage">>

IMAGE_FORMAT_LIST_2 ==
    <<"jpegImage", "rawImage", "raw10Image", "raw12Image", "rawStatsImage",
      "yuvImage", "jpeg_rImage">>

\* The keys of the per-camera buffer dict do_capture creates.
BufFormats == {"raw", "raw10", "raw12", "rawStats", "dng", "jpeg", "jpeg_r", "y8"}

\* ------------------------------------------------------------ bounds

MaxSurfaces == 4     \* longest list of output surfaces of a validated call
MaxBurst == 2        \* longest burst of a call whose frames are received
MaxStreams == 2      \* most output surfaces of a call whose frames are received
MaxDim == 2          \* largest width / height
LongExposure == 1    \* longest exposure time, seconds
MaxDuration == 6     \* longest recording, seconds
MaxOpens == 3        \* most 'open' commands a session sends
MaxFormats == 2      \* longest list of output surfaces of a call that mixes formats
MaxStray == 1        \* most frames of another tag a device sends within one do_capture
MaxLatency == 2      \* largest sync_latency
MaxWire == 2         \* most frames written by the device and not yet read
MaxReads == 4        \* most frames a device sends to one convergence loop
MaxForwards == 2     \* most lines of the list of port forwardings
MaxCommands == 3     \* most command lines of a counted session
MaxPayload == 2      \* largest bufValueSize of a frame on the byte stream
Max3AFrames == 5     \* most frames a device sends to one call of do_3a
NumProcs == 2        \* host processes that open a session at the same time
MAX_NUM_PORTS == 2   \* candidate ports (100 in the source)
num_retries == 2     \* bind attempts on the lock port (100 in the source)

\* ------------------------------------------------------------ sentinels

NoCam == "None"          \* no 'physicalCamera' key, no hidden physical id
NoFormat == "None"       \* no 'format' key
NoSuffix == ""           \* a tag with nothing after the image tag

\* The session's camera id (self._camera_id) and the physical cameras behind it.
camera_id == "0"
PhysicalIds == {"2", "3"}

\* A capture request is its android.sensor.exposureTime, when it has the key.
NoExp == [hasExposureTime |-> FALSE, exposureTime |-> 0]
Exposure(ns) == [hasExposureTime |-> TRUE, exposureTime |-> ns]

\* ------------------------------------------------------------ helpers

Range(s) == {s[k] : k \in DOMAIN s}


\* tag[:-5]: the tag without its "Image" ending.
StripImage(base) ==
    CASE base = "jpegImage" -> "jpeg"
      [] base = "rawImage" -> "raw"
      [] base = "raw10Image" -> "raw10"
      [] base = "raw12Image" -> "raw12"
      [] base = "rawStatsImage" -> "rawStats"
      [] base = "dngImage" -> "dng"
      [] base = "y8Image" -> "y8"
      [] base = "jpeg_rImage" -> "jpeg_r"
      [] base = "yuvImage" -> "yuv"
      [] base = "privImage" -> "priv"
      [] OTHER -> base

\* YUV420: 1.5 bytes per pixel.
YuvSize(w, h) == (w * h * 3) \div 2

\* ------------------------------------------------------------ state

VARIABLES
    pc,                  \* "idle", or the operation whose response is awaited
    op,                  \* the operation running or last run
    outcome,             \* how it ended: "none", "returned" or the error raised
    ret,                 \* the value it returned
    sockTimeout,         \* the socket's timeout, seconds
    sockOut,             \* the command lines the operation wrote to the socket,
                         \* each with the socket timeout in force when it was written
    nread,               \* how many response frames the operation has read
    response,            \* data: the frame a single-response operation read
    converged,           \* do_3a, do_autoframing: converged, as the call left it
    locals3a,            \* do_3a: its arguments and ae_sens, ae_exp, awb_gains,
                         \* awb_transform, af_dist, as the call left them
    props,               \* ItsSession.props
    hidden_physical_id,  \* self._hidden_physical_id
    cmd,                 \* do_capture: the command dict it builds
    cam_ids,             \* do_capture: camera ids of the surfaces, in order
    bufs,                \* do_capture: camera id -> format -> buffers received
    yuv_bufs,            \* do_capture: camera id -> buffer size -> buffers received
    nbufs,               \* do_capture: buffers counted
    mds,                 \* do_capture: the captureResult of each metadata frame
    physical_mds,        \* do_capture: the physicalResults of each metadata frame
    widths,              \* do_capture: widths of the last metadata frame's outputs
    heights,             \* do_capture: heights of the last metadata frame's outputs
    simple_fmt,          \* do_simple_capture: fmt
    capture_results_returned,   \* do_simple_capture: a captureResults frame was read
    dev,                 \* the device: frames produced so far for the command
    nsent,               \* command lines written to the socket since the session began
    ncompleted,          \* operations that wrote a line and have returned or raised
    stream,              \* the bytes the device wrote to the connection, in order
    closed,              \* the device closed the connection after writing them
    pos,                 \* how many bytes of the stream the session has consumed
    rd,                  \* __read_response_from_socket: its position and locals
    lock_port,           \* the processes whose socket_lock is bound to LOCK_PORT
    forward_list,        \* what 'adb forward --list' prints, line by line
    busy_ports,          \* local ports held by other programs
    alloc,               \* per process: where __init_socket_port is, and its locals
    sock,                \* self.sock: "open" until the session closes it
    self_camera_id,      \* self._camera_id
    argv,                \* the ids of the 'camera=' argument of sys.argv, <<>> without one
    opened,              \* self._camera_id at construction and after each 'open' sent
    helper,              \* do_capture_with_latency: its arguments, and how it ended
    wire                 \* frames written by the device and not yet read, each with the
                         \* number of the command it answers; that of the frame the last
                         \* command read last; whether the device has ended its answer

sessionVars == <<props, hidden_physical_id>>
captureVars == <<cmd, cam_ids, bufs, yuv_bufs, nbufs, mds, physical_mds, widths, heights>>
simpleVars == <<simple_fmt, capture_results_returned>>
convergeVars == <<converged, locals3a>>
countVars == <<nsent, ncompleted>>
\* What an operation of the session leaves alone.
recvVars == <<stream, closed, pos, rd>>
portVars == <<lock_port, forward_list, busy_ports, alloc>>
otherVars == <<countVars, recvVars, portVars>>
ctxVars == <<sock, self_camera_id, argv, opened, helper, wire>>
itsVars == <<pc, op, outcome, ret, sockTimeout, sockOut, nread, response, sessionVars, captureVars,
             simpleVars, convergeVars, dev>>
vars == <<itsVars, otherVars, ctxVars>>

\* ItsSession.props before get_camera_properties has run.
NoProps == [available |-> FALSE, yuv |-> <<0, 0>>]

\* capture_request_utils.get_available_output_sizes('yuv', props)[0]: the
\* largest YUV size the camera offers.
MaxYuvSize(p) == p.yuv

NoCmd == [cmdName |-> "None", outputSurfaces |-> <<>>, captureRequests |-> <<>>,
          capIsList |-> FALSE, surfKind |-> "None", repeat |-> "None",
          reprocessFormat |-> "None"]

\* No response read yet.
NoResponse == [tag |-> "None", strValue |-> ""]

\* A local of do_3a is None or holds numbers: one for ae_sens, ae_exp and
\* af_dist, a list for awb_gains and awb_transform.
NoneValue == [none |-> TRUE, v |-> <<>>]
Some(v) == [none |-> FALSE, v |-> v]

\* The locals of do_3a when it is not running.
No3A == [do_ae |-> FALSE, do_awb |-> FALSE, do_af |-> FALSE, get_results |-> FALSE,
         mono_camera |-> FALSE, ae_sens |-> NoneValue, ae_exp |-> NoneValue,
         awb_gains |-> NoneValue, awb_transform |-> NoneValue, af_dist |-> NoneValue]

NoRet == [shape |-> <<>>, rets |-> <<>>]

\* self.sock.send(json.dumps(cmd) + newline) while the socket's timeout is t.
Line(cmdName, t) == [cmdName |-> cmdName, timeout |-> t]

NoDev == [img |-> <<>>, md |-> 0]

\* Nothing is on the wire and nothing was read.
NoWire == [queue |-> <<>>, last |-> 0, done |-> TRUE]

\* No call of do_capture_with_latency.
NoHelper == [name |-> "None", req |-> NoExp, sync_latency |-> 0, outcome |-> "none", ret |-> NoRet]

\* The locals of do_capture before its first statement.
CaptureLocalsInit ==
    /\ cmd = NoCmd
    /\ cam_ids = <<>>
    /\ bufs = <<>>
    /\ yuv_bufs = <<>>
    /\ nbufs = 0
    /\ mds = <<>>
    /\ physical_mds = <<>>
    /\ widths = <<>>
    /\ heights = <<>>
    /\ simple_fmt = NoFormat
    /\ capture_results_returned = FALSE
    /\ converged = FALSE
    /\ locals3a = No3A

\* ------------------------------------------------------------ do_capture: the command

\* s['physicalCamera'] = self._hidden_physical_id, for every surface.
OverrideHidden(surfs, hidden) ==
    [k \in DOMAIN surfs |->
        IF hidden # NoCam THEN [surfs[k] EXCEPT !.physicalCamera = hidden]
        ELSE surfs[k]]

SurfaceCam(s) == IF s.physicalCamera # NoCam THEN s.physicalCamera ELSE camera_id

\* c['format'] if 'format' in c else 'yuv', with 'jpg' read as 'jpeg'.
FormatsOf(surfs) ==
    [k \in DOMAIN surfs |->
        LET f == IF surfs[k].format # NoFormat THEN surfs[k].format ELSE "yuv"
        IN  IF f = "jpg" THEN "jpeg" ELSE f]

RECURSIVE CamIdsOf(_)
CamIdsOf(surfs) ==
    IF surfs = <<>> THEN <<>>
    ELSE LET front == CamIdsOf(SubSeq(surfs, 1, Len(surfs) - 1))
             c == SurfaceCam(surfs[Len(surfs)])
         IN  IF c \in Range(front) THEN front ELSE Append(front, c)

\* The surfaces the validation attributes to cam_id.
OnCam(surfs, cam) ==
    SelectSeq(surfs, LAMBDA s :
        IF cam = camera_id THEN s.physicalCamera = NoCam
        ELSE s.physicalCamera # NoCam /\ s.physicalCamera = cam)

YuvSurfaces(surfs, cam) == SelectSeq(OnCam(surfs, cam), LAMBDA s : s.format = "yuv")

FormatsForId(surfs, cam) == LET on == OnCam(surfs, cam) IN [k \in DOMAIN on |-> on[k].format]

\* A YUV surface naming neither width nor height asks for the maximum size.
NeedsMaxSize(yuv_surfaces) ==
    \E k \in DOMAIN yuv_surfaces : yuv_surfaces[k].width = 0 /\ yuv_surfaces[k].height = 0

YuvMaxsize1d(yuv_surfaces, p) ==
    IF NeedsMaxSize(yuv_surfaces) THEN YuvSize(MaxYuvSize(p)[1], MaxYuvSize(p)[2]) ELSE 0

YuvSizes(yuv_surfaces, p) ==
    [k \in DOMAIN yuv_surfaces |->
        IF yuv_surfaces[k].width # 0 /\ yuv_surfaces[k].height # 0
        THEN YuvSize(yuv_surfaces[k].width, yuv_surfaces[k].height)
        ELSE YuvMaxsize1d(yuv_surfaces, p)]

\* A same-size test that compares only neighbouring surfaces.
SameSizeAsNext(yuv_sizes) ==
    \E k \in 1..(Len(yuv_sizes) - 1) : yuv_sizes[k] = yuv_sizes[k + 1]

\* len(yuv_sizes) != len(set(yuv_sizes))
SameSizeYuv(yuv_sizes) == Len(yuv_sizes) # Cardinality(Range(yuv_sizes))

\* A duplicate-format test that takes no account of the YUV surfaces.
AnyFormatTwice(formats_for_id, n_yuv) ==
    Len(formats_for_id) > Cardinality(Range(formats_for_id))

\* The duplicate-format test of one camera.
DuplicateFormat(formats_for_id, n_yuv) ==
    /\ Len(formats_for_id) > Cardinality(Range(formats_for_id))
    /\ n_yuv # Len(formats_for_id) - Cardinality(Range(formats_for_id)) + 1

\* One round of "for cam_id in cam_ids": the error it raises, or "ok".
CheckCam(surfs, cam, p) ==
    IF \E k \in DOMAIN surfs : surfs[k].format = NoFormat THEN "KeyError"
    ELSE LET yuv_surfaces == YuvSurfaces(surfs, cam)
             formats_for_id == FormatsForId(surfs, cam)
         IN  IF NeedsMaxSize(yuv_surfaces) /\ ~p.available THEN "CameraItsError"
             ELSE IF SameSizeYuv(YuvSizes(yuv_surfaces, p)) THEN "CameraItsError"
             ELSE IF DuplicateFormat(formats_for_id, Len(yuv_surfaces)) THEN "CameraItsError"
             ELSE "ok"

RECURSIVE CheckCams(_, _, _)
CheckCams(surfs, cams, p) ==
    IF cams = <<>> THEN "ok"
    ELSE LET e == CheckCam(surfs, Head(cams), p)
         IN  IF e # "ok" THEN e ELSE CheckCams(surfs, Tail(cams), p)

\* A count of raw formats that knows 'raw' and 'dng' only.
RawAndDng(formats) == {"raw", "dng"} \subseteq Range(formats)

\* raw_formats > 1
DifferentRawFormats(formats) ==
    Cardinality(Range(formats) \cap {"dng", "raw", "raw10", "raw12", "rawStats"}) > 1

RECURSIVE LongestExpTime(_)
LongestExpTime(reqs) ==
    IF reqs = <<>> THEN 0
    ELSE LET rest == LongestExpTime(SubSeq(reqs, 1, Len(reqs) - 1))
             e == reqs[Len(reqs)]
         IN  IF e.hasExposureTime /\ e.exposureTime > rest THEN e.exposureTime ELSE rest

\* A timeout that forgets the repeating request.
TimeoutWithoutRepeat(reqs, repeat_request) ==
    (LongestExpTime(reqs) \div SEC_TO_NSEC) + SOCK_TIMEOUT

ExtendedTimeout(reqs, repeat_request) ==
    (LongestExpTime(reqs) \div SEC_TO_NSEC) + SOCK_TIMEOUT
        + (IF repeat_request = "request" THEN EXTRA_SOCK_TIMEOUT ELSE 0)

\* yuv_bufs[cam_id] = {size: [] for size in yuv_sizes}, and the bufs dict.
NewYuvBufs(surfs, cams, p) ==
    [c \in Range(cams) |->
        [z \in Range(YuvSizes(YuvSurfaces(surfs, c), p)) |-> <<>>]]

NewBufs(cams) == [c \in Range(cams) |-> [f \in BufFormats |-> <<>>]]

\* What do_capture raises before it sends, or "ok".
CaptureCheck(out_surfaces, surfs, reprocess_format, repeat_request, p) ==
    IF reprocess_format # "None" /\ repeat_request # "None" THEN "CameraItsError"
    ELSE IF out_surfaces.kind = "None" /\ ~p.available THEN "TypeError"
    ELSE LET e == CheckCams(surfs, CamIdsOf(surfs), p)
         IN  IF e # "ok" THEN e
             ELSE IF DifferentRawFormats(FormatsOf(surfs)) THEN "CameraItsError"
             ELSE "ok"

\* cmd['outputSurfaces'] before the hidden physical id is written into it.
OutputSurfaces(out_surfaces, p) ==
    IF out_surfaces.kind = "None"
    THEN <<[format |-> "yuv", physicalCamera |-> NoCam,
            width |-> MaxYuvSize(p)[1], height |-> MaxYuvSize(p)[2]]>>
    ELSE out_surfaces.surfs

\* do_capture up to and including the send.
do_capture(cap_request, out_surfaces, reprocess_format, repeat_request) ==
    /\ pc = "idle"
    /\ LET surfs == OverrideHidden(OutputSurfaces(out_surfaces, props), hidden_physical_id)
           cams == CamIdsOf(surfs)
           e == CaptureCheck(out_surfaces, surfs, reprocess_format, repeat_request, props)
       IN  /\ op' = "do_capture"
           /\ cmd' = [cmdName |-> IF reprocess_format # "None" THEN "doReprocessCapture"
                                  ELSE "doCapture",
                      outputSurfaces |-> surfs,
                      captureRequests |-> cap_request.reqs,
                      capIsList |-> cap_request.isList,
                      surfKind |-> out_surfaces.kind,
                      repeat |-> repeat_request,
                      reprocessFormat |-> reprocess_format]
           /\ cam_ids' = cams
           /\ nbufs' = 0
           /\ mds' = <<>>
           /\ physical_mds' = <<>>
           /\ widths' = <<>>
           /\ heights' = <<>>
           /\ ret' = NoRet
           /\ nread' = 0
           /\ response' = NoResponse
           /\ IF e # "ok"
              THEN /\ pc' = "idle"
                   /\ outcome' = e
                   /\ bufs' = <<>>
                   /\ yuv_bufs' = <<>>
                   /\ sockOut' = <<>>
                   /\ dev' = NoDev
                   /\ UNCHANGED sockTimeout
              ELSE /\ pc' = "do_capture"
                   /\ outcome' = "none"
                   /\ bufs' = NewBufs(cams)
                   /\ yuv_bufs' = NewYuvBufs(surfs, cams, props)
                   /\ sockTimeout' = ExtendedTimeout(cap_request.reqs, repeat_request)
                   /\ sockOut' = <<Line(cmd'.cmdName, sockTimeout')>>
                   /\ dev' = [img |-> [k \in DOMAIN surfs |-> 0], md |-> 0]
    /\ UNCHANGED <<sessionVars, simpleVars, convergeVars>>

\* ------------------------------------------------------------ do_capture: the receive loop

NoBuf == [present |-> FALSE, id |-> <<0, 0>>, size |-> 0]
NoObj == [captureResult |-> 0, physicalResults |-> <<>>, outputs |-> <<>>]

InList1(tag) == tag.suffix = NoSuffix /\ tag.base \in Range(IMAGE_FORMAT_LIST_1)

Ncap == Len(cmd.captureRequests)
Nsurf == IF cmd.surfKind = "None" THEN 1 ELSE Len(cmd.outputSurfaces)

\* The locals the loop body works on.
Locals ==
    [err |-> "ok", bufs |-> bufs, yuv_bufs |-> yuv_bufs, nbufs |-> nbufs,
     mds |-> mds, physical_mds |-> physical_mds, widths |-> widths, heights |-> heights,
     fmt |-> simple_fmt, capture_results_returned |-> capture_results_returned]

Raise(L, e) == [L EXCEPT !.err = e]

\* bufs[cam][fmt].append(buf); nbufs += 1
StoreFormat(L, cam, fmt, buf) ==
    IF cam \notin DOMAIN L.bufs THEN Raise(L, "KeyError")
    ELSE IF fmt \notin DOMAIN L.bufs[cam] THEN Raise(L, "KeyError")
    ELSE [L EXCEPT !.bufs = [L.bufs EXCEPT ![cam][fmt] = Append(@, buf)],
                   !.nbufs = L.nbufs + 1]

\* buf_size = numpy.product(buf.shape); yuv_bufs[cam][buf_size].append(buf); nbufs += 1
StoreYuv(L, cam, buf) ==
    IF ~buf.present THEN Raise(L, "AttributeError")
    ELSE IF cam \notin DOMAIN L.yuv_bufs THEN Raise(L, "KeyError")
    ELSE IF buf.size \notin DOMAIN L.yuv_bufs[cam] THEN Raise(L, "KeyError")
    ELSE [L EXCEPT !.yuv_bufs = [L.yuv_bufs EXCEPT ![cam][buf.size] = Append(@, buf)],
                   !.nbufs = L.nbufs + 1]

\* A private image that is not counted.
SkipPrivate(L) == L

\* A private image: counted, its buffer left alone.
CountPrivate(L) == [L EXCEPT !.nbufs = L.nbufs + 1]

\* The captureResults branch.
StoreMetadata(L, objValue) ==
    [L EXCEPT !.mds = Append(L.mds, objValue.captureResult),
              !.physical_mds = Append(L.physical_mds, objValue.physicalResults),
              !.widths = [k \in DOMAIN objValue.outputs |-> objValue.outputs[k].width],
              !.heights = [k \in DOMAIN objValue.outputs |-> objValue.outputs[k].height]]

\* The tags the last branch of the loop body recognises by their start.
SuffixedTags == Range(IMAGE_FORMAT_LIST_2)

\* The locals after one pass of the loop body over frame; err is the error
\* the pass raises ("ok" when none).
LoopBody(frame) ==
    LET tag == frame.tag
        buf == frame.buf
    IN  IF InList1(tag) /\ buf.present
        THEN StoreFormat(Locals, camera_id, StripImage(tag.base), buf)
        ELSE IF tag.base = "privImage" THEN CountPrivate(Locals)
        ELSE IF tag.base = "yuvImage" /\ tag.suffix = NoSuffix
        THEN StoreYuv(Locals, camera_id, buf)
        ELSE IF tag.base = "captureResults" /\ tag.suffix = NoSuffix
        THEN StoreMetadata(Locals, frame.objValue)
        ELSE IF tag.base \in SuffixedTags /\ tag.suffix \in Range(cam_ids)
        THEN IF tag.base = "yuvImage" THEN StoreYuv(Locals, tag.suffix, buf)
             ELSE StoreFormat(Locals, tag.suffix, StripImage(tag.base), buf)
        ELSE Locals

\* while nbufs < ncap * nsurf or len(mds) < ncap
LoopGoesOn(n, m) == n < Ncap * Nsurf \/ Len(m) < Ncap

\* ------------------------------------------------------------ do_capture: the result

\* The first dict of physical_mds[i] that holds cam_id: its index, 0 when none.
RECURSIVE FirstWithCam(_, _, _)
FirstWithCam(physical_md_list, cam, k) ==
    IF k > Len(physical_md_list) THEN 0
    ELSE IF physical_md_list[k].cam = cam THEN k
    ELSE FirstWithCam(physical_md_list, cam, k + 1)

\* Metadata selection that gives every surface the primary camera's.
PrimaryMetadataFor(L, cam, i) == [has |-> TRUE, md |-> L.mds[i]]

\* The metadata of the object for a surface on cam and capture i: whether it
\* has any, and which.
MetadataFor(L, cam, i) ==
    LET k == FirstWithCam(L.physical_mds[i], cam, 1)
    IN  IF cam = camera_id THEN [has |-> TRUE, md |-> L.mds[i]]
        ELSE IF k # 0 THEN [has |-> TRUE, md |-> L.physical_mds[i][k].md]
        ELSE [has |-> FALSE, md |-> L.mds[i]]

\* Whether the object of a surface of format fmt gets a 'data' field.
HasData(fmt) == fmt = "yuv" \/ fmt # "priv"

\* The object built for surface j and capture i from the locals L, and the
\* error building it raises.
ResultObject(L, j, i) ==
    LET fmt == FormatsOf(cmd.outputSurfaces)[j]
        cam == SurfaceCam(cmd.outputSurfaces[j])
        base == [width |-> L.widths[j], height |-> L.heights[j], format |-> fmt]
        m == MetadataFor(L, cam, i)
        withMd == IF m.has THEN base @@ [metadata |-> m.md] ELSE base
        buf_size == YuvSize(L.widths[j], L.heights[j])
        fails(e) == [err |-> e, obj |-> <<>>]
    IN  IF j > Len(L.widths) THEN fails("IndexError")
        ELSE IF ~HasData(fmt) THEN [err |-> "ok", obj |-> withMd]
        ELSE IF fmt = "yuv"
        THEN IF cam \notin DOMAIN L.yuv_bufs THEN fails("KeyError")
             ELSE IF buf_size \notin DOMAIN L.yuv_bufs[cam] THEN fails("KeyError")
             ELSE IF i > Len(L.yuv_bufs[cam][buf_size]) THEN fails("IndexError")
             ELSE [err |-> "ok", obj |-> withMd @@ [data |-> L.yuv_bufs[cam][buf_size][i]]]
        ELSE IF fmt \notin DOMAIN L.bufs[cam] THEN fails("KeyError")
        ELSE IF i > Len(L.bufs[cam][fmt]) THEN fails("IndexError")
        ELSE [err |-> "ok", obj |-> withMd @@ [data |-> L.bufs[cam][fmt][i]]]

\* rets before the final return statement: one row per surface.
Rets(L) ==
    [j \in 1..Len(cmd.outputSurfaces) |-> [i \in 1..Ncap |-> ResultObject(L, j, i)]]

\* The error of the first object, surface by surface and capture by capture,
\* that cannot be built.
RetsError(L) ==
    LET bad == {<<j, i>> \in (1..Len(cmd.outputSurfaces)) \X (1..Ncap) :
                    Rets(L)[j][i].err # "ok"}
        first == CHOOSE b \in bad : \A c \in bad :
                    b[1] < c[1] \/ (b[1] = c[1] /\ b[2] <= c[2])
    IN  IF bad = {} THEN "ok" ELSE Rets(L)[first[1]][first[2]].err

\* A return rule that looks at the number of surfaces only.
SeveralSurfaces == Len(cmd.outputSurfaces) > 1

\* Whether the last statement returns rets itself rather than rets[0].
ReturnsRets == Len(cmd.outputSurfaces) > 1 \/ (Ncap <= 1 /\ cmd.capIsList)

\* The returned value: its nesting (<<>> a single object, <<n>> a list of n
\* objects, <<n, m>> a list of n lists of m objects) and the objects.
Returned(L) ==
    LET inner == IF Ncap > 1 THEN <<Ncap>> ELSE <<>>
        rows == [j \in 1..Len(cmd.outputSurfaces) |-> [i \in 1..Ncap |-> Rets(L)[j][i].obj]]
    IN  [shape |-> IF ReturnsRets THEN <<Len(cmd.outputSurfaces)>> \o inner ELSE inner,
         rets |-> rows]

\* caps[0] instead of caps[-1].
CapsFirst(caps) ==
    IF caps.shape = <<>> THEN [err |-> "KeyError", value |-> NoRet]
    ELSE IF Len(caps.shape) = 2
    THEN [err |-> "ok", value |-> [shape |-> Tail(caps.shape), rets |-> <<caps.rets[1]>>]]
    ELSE [err |-> "ok", value |-> [shape |-> <<>>, rets |-> <<<<caps.rets[1][1]>>>>]]

\* caps[-1] of the value do_capture returned: a dict has no key -1; the last
\* surface's entry of a list over surfaces, the last capture's object of a
\* list over captures.
CapsLast(caps) ==
    LET n == caps.shape[1]
    IN  IF caps.shape = <<>> THEN [err |-> "KeyError", value |-> NoRet]
        ELSE IF Len(caps.shape) = 2
        THEN [err |-> "ok", value |-> [shape |-> Tail(caps.shape), rets |-> <<caps.rets[n]>>]]
        ELSE IF Len(caps.rets) = n
        THEN [err |-> "ok", value |-> [shape |-> <<>>, rets |-> <<<<caps.rets[n][1]>>>>]]
        ELSE [err |-> "ok", value |-> [shape |-> <<>>, rets |-> <<<<caps.rets[1][n]>>>>]]

\* One pass of the receive loop over the frame the socket delivers, and, when
\* the loop ends with it, the rest of do_capture.
do_capture_loop(frame) ==
    /\ pc = "do_capture"
    /\ LET L == LoopBody(frame)
       IN  /\ bufs' = L.bufs
           /\ yuv_bufs' = L.yuv_bufs
           /\ nbufs' = L.nbufs
           /\ mds' = L.mds
           /\ physical_mds' = L.physical_mds
           /\ widths' = L.widths
           /\ heights' = L.heights
           /\ IF L.err # "ok"
              THEN /\ pc' = "idle"
                   /\ outcome' = L.err
                   /\ UNCHANGED <<ret, sockTimeout>>
              ELSE IF LoopGoesOn(L.nbufs, L.mds)
              THEN UNCHANGED <<pc, outcome, ret, sockTimeout>>
              ELSE IF RetsError(L) # "ok"
              THEN /\ pc' = "idle"
                   /\ outcome' = RetsError(L)
                   /\ UNCHANGED <<ret, sockTimeout>>
              ELSE IF Len(cmd.outputSurfaces) = 0
              THEN /\ pc' = "idle"
                   /\ outcome' = "IndexError"
                   /\ sockTimeout' = SOCK_TIMEOUT
                   /\ UNCHANGED ret
              ELSE /\ pc' = "idle"
                   /\ outcome' = "returned"
                   /\ sockTimeout' = SOCK_TIMEOUT
                   /\ ret' = Returned(L)
    /\ nread' = nread + 1
    /\ UNCHANGED response
    /\ UNCHANGED <<op, sockOut, sessionVars, cmd, cam_ids, simpleVars, convergeVars>>

\* ------------------------------------------------------------ the device

\* The image tag the service uses for a surface's format.
TagBase(format) ==
    CASE format = "yuv" -> "yuvImage"
      [] format \in {"jpeg", "jpg"} -> "jpegImage"
      [] format = "raw" -> "rawImage"
      [] format = "raw10" -> "raw10Image"
      [] format = "raw12" -> "raw12Image"
      [] format = "rawStats" -> "rawStatsImage"
      [] format = "dng" -> "dngImage"
      [] format = "y8" -> "y8Image"
      [] format = "jpeg_r" -> "jpeg_rImage"
      [] format = "priv" -> "privImage"
      [] OTHER -> "unknownImage"

\* The size the service produces for a surface: the one asked for, or the
\* largest one.
DeviceDims(s) ==
    IF s.width # 0 /\ s.height # 0 THEN [width |-> s.width, height |-> s.height]
    ELSE [width |-> MaxYuvSize(props)[1], height |-> MaxYuvSize(props)[2]]

\* The i-th image frame of stream j.
ImageFrame(j, i) ==
    LET s == cmd.outputSurfaces[j]
    IN  [tag |-> [base |-> TagBase(s.format),
                  suffix |-> IF s.physicalCamera = NoCam THEN NoSuffix ELSE s.physicalCamera],
         buf |-> [present |-> TRUE, id |-> <<j, i>>,
                  size |-> IF s.format = "yuv"
                           THEN YuvSize(DeviceDims(s).width, DeviceDims(s).height)
                           ELSE 0],
         objValue |-> NoObj]

CaptureResultOf(i) == [kind |-> "captureResult", cam |-> camera_id, capture |-> i]
PhysicalResultOf(c, i) == [kind |-> "physicalResult", cam |-> c, capture |-> i]

RECURSIVE SetToSeq(_)
SetToSeq(S) ==
    IF S = {} THEN <<>>
    ELSE LET x == CHOOSE y \in S : TRUE IN <<x>> \o SetToSeq(S \ {x})

\* The captureResults frame of capture i, with the physical results of the
\* physical cameras in present and the given outputs.
MetadataFrame(i, present, outputs) ==
    LET cams == SetToSeq(present)
    IN  [tag |-> [base |-> "captureResults", suffix |-> NoSuffix],
         buf |-> NoBuf,
         objValue |-> [captureResult |-> CaptureResultOf(i),
                       physicalResults |->
                           [k \in DOMAIN cams |-> [cam |-> cams[k],
                                                   md |-> PhysicalResultOf(cams[k], i)]],
                       outputs |-> outputs]]

\* The format the service reports for a surface.
ReportedFormat(s) ==
    IF s.format = NoFormat THEN "yuv" ELSE IF s.format = "jpg" THEN "jpeg" ELSE s.format

\* The 'outputs' of a captureResults frame: size and format of each surface.
ProducedOutputs ==
    [k \in DOMAIN cmd.outputSurfaces |->
        [width |-> DeviceDims(cmd.outputSurfaces[k]).width,
         height |-> DeviceDims(cmd.outputSurfaces[k]).height,
         format |-> ReportedFormat(cmd.outputSurfaces[k])]]

\* Outputs that report, for one surface, a size other than the produced one.
MisreportedOutputs ==
    UNION {{[ProducedOutputs EXCEPT ![k] = d] :
                d \in {[ProducedOutputs[k] EXCEPT !.width = w, !.height = h] :
                            w \in 1..MaxDim, h \in 1..MaxDim} \ {ProducedOutputs[k]}} :
           k \in DOMAIN cmd.outputSurfaces}

\* The next frame of the command on the wire and the device after it: the
\* streams are interleaved freely, each stream and the metadata in capture order.
ImageMoves ==
    {[frame |-> ImageFrame(j, dev.img[j] + 1), dev |-> [dev EXCEPT !.img[j] = @ + 1]] :
        j \in {k \in DOMAIN dev.img : dev.img[k] < Ncap}}

\* The physical cameras the command has streams on: a capture's
\* physicalResults holds the results of some of them.
StreamedPhysicalCameras ==
    {SurfaceCam(cmd.outputSurfaces[k]) : k \in DOMAIN cmd.outputSurfaces} \ {camera_id}

MetadataMoves(outputSet) ==
    IF dev.md >= Ncap THEN {}
    ELSE {[frame |-> MetadataFrame(dev.md + 1, present, outputs),
           dev |-> [dev EXCEPT !.md = @ + 1]] :
            present \in SUBSET StreamedPhysicalCameras, outputs \in outputSet}

DeviceMoves == ImageMoves \cup MetadataMoves({ProducedOutputs})
DeviceMovesAnySize == ImageMoves \cup MetadataMoves({ProducedOutputs} \cup MisreportedOutputs)

\* All frames of the command are on the wire (and, each being read as it
\* comes, have been read).
DeviceDone == dev.md = Ncap /\ \A j \in DOMAIN dev.img : dev.img[j] = Ncap

\* ------------------------------------------------------------ do_simple_capture

\* The keys of bufs[cam_id] in do_simple_capture.
SimpleBufFormats == {"raw", "raw10", "raw12", "rawStats", "dng", "jpeg", "y8"}

\* fmt = out_surface['format'] if 'format' in out_surface else 'yuv'; jpg is jpeg
SimpleFormat(s) ==
    IF s.format = NoFormat THEN "yuv" ELSE IF s.format = "jpg" THEN "jpeg" ELSE s.format

\* yuv_size: the surface's own when it has width and height, else
\* yuv_maxsize_1d, which is computed only when it has neither.
SimpleYuvSize(s, p) ==
    IF s.width # 0 /\ s.height # 0 THEN YuvSize(s.width, s.height)
    ELSE IF s.width = 0 /\ s.height = 0 THEN YuvSize(MaxYuvSize(p)[1], MaxYuvSize(p)[2])
    ELSE 0

\* What do_simple_capture raises before it sends, or "ok".
SimpleCheck(s, p) ==
    IF s.format = NoFormat THEN "KeyError"
    ELSE IF s.format = "yuv" /\ s.width = 0 /\ s.height = 0 /\ ~p.available
    THEN "CameraItsError"
    ELSE "ok"

\* physical_id in cam_ids, cam_ids being the string self._camera_id: the
\* substrings of a one-character id are the empty string and the id.
InString(x, s) == x = NoSuffix \/ x = s

\* do_simple_capture up to and including the send.
do_simple_capture(cmdName, out_surface) ==
    /\ pc = "idle"
    /\ LET s == OverrideHidden(<<out_surface>>, hidden_physical_id)[1]
           cam_id == SurfaceCam(s)
           e == SimpleCheck(s, props)
       IN  /\ op' = "do_simple_capture"
           /\ cmd' = [NoCmd EXCEPT !.cmdName = cmdName,
                                   !.outputSurfaces = <<s>>,
                                   !.captureRequests = [i \in 1..SINGLE_CAPTURE_NCAP |-> NoExp],
                                   !.surfKind = "dict"]
           /\ simple_fmt' = SimpleFormat(s)
           /\ capture_results_returned' = FALSE
           /\ converged' = FALSE
           /\ locals3a' = No3A
           /\ cam_ids' = <<camera_id>>
           /\ nbufs' = 0
           /\ mds' = <<>>
           /\ physical_mds' = <<>>
           /\ widths' = <<>>
           /\ heights' = <<>>
           /\ ret' = NoRet
           /\ nread' = 0
           /\ response' = NoResponse
           /\ bufs' = [c \in {cam_id} |-> [f \in SimpleBufFormats |-> <<>>]]
           /\ IF e # "ok"
              THEN /\ pc' = "idle"
                   /\ outcome' = e
                   /\ yuv_bufs' = <<>>
                   /\ sockOut' = <<>>
                   /\ dev' = NoDev
                   /\ UNCHANGED sockTimeout
              ELSE /\ pc' = "do_simple_capture"
                   /\ outcome' = "none"
                   /\ yuv_bufs' = IF s.format = "yuv"
                                  THEN [c \in {cam_id} |->
                                           [z \in {SimpleYuvSize(s, props)} |-> <<>>]]
                                  ELSE <<>>
                   /\ sockTimeout' = SOCK_TIMEOUT + EXTRA_SOCK_TIMEOUT
                   /\ sockOut' = <<Line(cmdName, sockTimeout')>>
                   /\ dev' = [img |-> <<0>>, md |-> 0]
    /\ UNCHANGED sessionVars

do_capture_with_flash(out_surface) == do_simple_capture("doCaptureWithFlash", out_surface)

do_capture_with_extensions(out_surface) ==
    do_simple_capture("doCaptureWithExtensions", out_surface)

\* The captureResults branch of do_simple_capture.
SimpleMetadata(L, objValue, s) ==
    LET L1 == [L EXCEPT !.capture_results_returned = TRUE,
                        !.mds = <<objValue.captureResult>>,
                        !.physical_mds = <<objValue.physicalResults>>]
        out == objValue.outputs[1]
        L2 == [L1 EXCEPT !.widths = <<out.width>>, !.heights = <<out.height>>]
    IN  IF objValue.outputs = <<>> THEN Raise(L1, "IndexError")
        ELSE IF L.fmt # out.format THEN Raise(L1, "AssertionError")
        ELSE IF s.width = 0 \/ s.height = 0 THEN Raise(L2, "KeyError")
        ELSE IF s.width # out.width \/ s.height # out.height THEN Raise(L2, "AssertionError")
        ELSE L2

\* One pass of do_simple_capture's loop body.
SimpleLoopBody(frame) ==
    LET tag == frame.tag
        buf == frame.buf
        named == [Locals EXCEPT !.fmt = StripImage(tag.base)]
    IN  IF InList1(tag) /\ buf.present
        THEN StoreFormat(named, camera_id, StripImage(tag.base), buf)
        ELSE IF tag.base = "yuvImage" /\ tag.suffix = NoSuffix
        THEN StoreYuv(Locals, camera_id, buf)
        ELSE IF tag.base = "captureResults" /\ tag.suffix = NoSuffix
        THEN SimpleMetadata(Locals, frame.objValue, cmd.outputSurfaces[1])
        ELSE IF tag.base \in SuffixedTags /\ InString(tag.suffix, camera_id)
        THEN IF tag.base = "yuvImage" THEN StoreYuv(Locals, tag.suffix, buf)
             ELSE StoreFormat(named, tag.suffix, StripImage(tag.base), buf)
        ELSE Locals

\* while (nbufs < ncap) or (not capture_results_returned)
SimpleLoopGoesOn(L) == L.nbufs < SINGLE_CAPTURE_NCAP \/ ~L.capture_results_returned

\* The dict do_simple_capture returns, and the error building it raises.
SimpleResult(L) ==
    LET cam_id == SurfaceCam(cmd.outputSurfaces[1])
        base == [width |-> L.widths[1], height |-> L.heights[1], format |-> L.fmt]
        withMd == IF cam_id = camera_id THEN base @@ [metadata |-> L.mds[1]] ELSE base
        buf_size == YuvSize(L.widths[1], L.heights[1])
        fails(e) == [err |-> e, obj |-> <<>>]
    IN  IF L.fmt = "yuv"
        THEN IF cam_id \notin DOMAIN L.yuv_bufs THEN fails("KeyError")
             ELSE IF buf_size \notin DOMAIN L.yuv_bufs[cam_id] THEN fails("KeyError")
             ELSE IF L.yuv_bufs[cam_id][buf_size] = <<>> THEN fails("IndexError")
             ELSE [err |-> "ok", obj |-> withMd @@ [data |-> L.yuv_bufs[cam_id][buf_size][1]]]
        ELSE IF L.fmt \notin DOMAIN L.bufs[cam_id] THEN fails("KeyError")
        ELSE IF L.bufs[cam_id][L.fmt] = <<>> THEN fails("IndexError")
        ELSE [err |-> "ok", obj |-> withMd @@ [data |-> L.bufs[cam_id][L.fmt][1]]]

\* One pass of the loop over the frame the socket delivers, and, when the
\* loop ends with it, the rest of do_simple_capture.
do_simple_capture_loop(frame) ==
    /\ pc = "do_simple_capture"
    /\ LET L == SimpleLoopBody(frame)
       IN  /\ bufs' = L.bufs
           /\ yuv_bufs' = L.yuv_bufs
           /\ nbufs' = L.nbufs
           /\ mds' = L.mds
           /\ physical_mds' = L.physical_mds
           /\ widths' = L.widths
           /\ heights' = L.heights
           /\ simple_fmt' = L.fmt
           /\ capture_results_returned' = L.capture_results_returned
           /\ IF L.err # "ok"
              THEN /\ pc' = "idle"
                   /\ outcome' = L.err
                   /\ UNCHANGED ret
              ELSE IF SimpleLoopGoesOn(L)
              THEN UNCHANGED <<pc, outcome, ret>>
              ELSE IF SimpleResult(L).err # "ok"
              THEN /\ pc' = "idle"
                   /\ outcome' = SimpleResult(L).err
                   /\ UNCHANGED ret
              ELSE /\ pc' = "idle"
                   /\ outcome' = "returned"
                   /\ ret' = [shape |-> <<>>, rets |-> <<<<SimpleResult(L).obj>>>>]
    /\ nread' = nread + 1
    /\ UNCHANGED response
    /\ UNCHANGED <<op, sockOut, sockTimeout, sessionVars, cmd, cam_ids, convergeVars>>

\* ------------------------------------------------------------ do_capture_with_latency

\* caps = cam.do_capture([req]*(sync_latency+1), fmt), up to do_capture's send.
do_capture_with_latency(req, sync_latency, fmt) ==
    /\ do_capture([isList |-> TRUE, reqs |-> [i \in 1..(sync_latency + 1) |-> req]],
                  fmt, "None", "None")
    /\ helper' = [name |-> "do_capture_with_latency", req |-> req,
                  sync_latency |-> sync_latency,
                  outcome |-> IF pc' = "idle" THEN outcome' ELSE "none", ret |-> NoRet]

\* do_capture reads on; when it returns, the helper returns caps[-1], and
\* what do_capture raises passes through the helper.
do_capture_with_latency_loop(frame) ==
    /\ helper.name = "do_capture_with_latency"
    /\ helper.outcome = "none"
    /\ do_capture_loop(frame)
    /\ helper' = IF pc' # "idle" THEN helper
                 ELSE IF outcome' # "returned" THEN [helper EXCEPT !.outcome = outcome']
                 ELSE IF CapsLast(ret').err # "ok"
                 THEN [helper EXCEPT !.outcome = CapsLast(ret').err]
                 ELSE [helper EXCEPT !.outcome = "returned", !.ret = CapsLast(ret').value]

\* ------------------------------------------------------------ commands with one response

\* The locals of the capture calls do not outlive them.
CaptureLocalsGone ==
    /\ cmd' = NoCmd
    /\ cam_ids' = <<>>
    /\ bufs' = <<>>
    /\ yuv_bufs' = <<>>
    /\ nbufs' = 0
    /\ mds' = <<>>
    /\ physical_mds' = <<>>
    /\ widths' = <<>>
    /\ heights' = <<>>
    /\ simple_fmt' = NoFormat
    /\ capture_results_returned' = FALSE
    /\ converged' = FALSE
    /\ locals3a' = No3A

\* self.sock.send(cmd) followed by self.sock.settimeout(timeout): operation o
\* now waits for its response.
Written(o, line, timeout) ==
    /\ pc = "idle"
    /\ pc' = o
    /\ op' = o
    /\ outcome' = "none"
    /\ ret' = NoRet
    /\ sockOut' = <<line>>
    /\ nread' = 0
    /\ response' = NoResponse
    /\ sockTimeout' = timeout
    /\ dev' = NoDev
    /\ CaptureLocalsGone

SentLine(o, line, timeout) == Written(o, line, timeout) /\ UNCHANGED sessionVars

Sent(o, cmdName, timeout) == SentLine(o, Line(cmdName, sockTimeout), timeout)

\* Operation o raises e before it sends.
RaisedBeforeSend(o, e) ==
    /\ pc = "idle"
    /\ pc' = "idle"
    /\ op' = o
    /\ outcome' = e
    /\ ret' = NoRet
    /\ sockOut' = <<>>
    /\ nread' = 0
    /\ response' = NoResponse
    /\ dev' = NoDev
    /\ CaptureLocalsGone
    /\ UNCHANGED <<sockTimeout, sessionVars>>

\* Operation o, having read the response data, ends with outcome e and value
\* r, the socket's timeout being t.
Ends(o, data, e, r, t) ==
    /\ pc = o
    /\ nread' = nread + 1
    /\ response' = data
    /\ pc' = "idle"
    /\ outcome' = e
    /\ ret' = r
    /\ sockTimeout' = t
    /\ UNCHANGED <<op, sockOut, sessionVars, captureVars, simpleVars, convergeVars, dev>>

\* The value an operation returns from the response data.
ValueOf(data) == [shape |-> <<>>, rets |-> <<data>>]

AnsweredAnyTag(o, data, tag) == Ends(o, data, "returned", ValueOf(data), sockTimeout)

\* data, _ = self.__read_response_from_socket(); raise CameraItsError unless
\* data['tag'] is the expected tag; return with the timeout left as it is.
Answered(o, data, tag) ==
    IF data.tag # tag THEN Ends(o, data, "CameraItsError", NoRet, sockTimeout)
    ELSE Ends(o, data, "returned", ValueOf(data), sockTimeout)

\* The same, for the operations that also refuse an empty strValue.
AnsweredWithString(o, data, tag) ==
    IF data.tag # tag \/ data.strValue = "" THEN Ends(o, data, "CameraItsError", NoRet, sockTimeout)
    ELSE Ends(o, data, "returned", ValueOf(data), sockTimeout)

\* get_camera_properties reads without touching the timeout and keeps the
\* properties in self.props.
get_camera_properties == Sent("get_camera_properties", "getCameraProperties", sockTimeout)

get_camera_properties_response(data, cameraProperties) ==
    IF data.tag # "cameraProperties"
    THEN Ends("get_camera_properties", data, "CameraItsError", NoRet, sockTimeout)
    ELSE /\ pc = "get_camera_properties"
         /\ pc' = "idle"
         /\ outcome' = "returned"
         /\ ret' = ValueOf(data)
         /\ props' = cameraProperties
         /\ nread' = nread + 1
         /\ response' = data
         /\ UNCHANGED <<op, sockOut, sockTimeout, hidden_physical_id, captureVars,
                        simpleVars, convergeVars, dev>>

get_sensor_events ==
    Sent("get_sensor_events", "getSensorEvents", SOCK_TIMEOUT + EXTRA_SOCK_TIMEOUT)

get_sensor_events_response(data) ==
    IF data.tag # "sensorEvents"
    THEN Ends("get_sensor_events", data, "CameraItsError", NoRet, sockTimeout)
    ELSE Ends("get_sensor_events", data, "returned", ValueOf(data), SOCK_TIMEOUT)

get_camera_ids ==
    Sent("get_camera_ids", "getCameraIds", SOCK_TIMEOUT + EXTRA_SOCK_TIMEOUT)

get_camera_ids_response(data) == Answered("get_camera_ids", data, "cameraIds")

\* zoom_ratio: "None", or how it compares with the camera's zoom range.
RecordingCheck(zoom_ratio, p) ==
    IF zoom_ratio = "None" THEN "ok"
    ELSE IF ~p.available THEN "TypeError"
    ELSE IF zoom_ratio = "out_of_range" THEN "AssertionError"
    ELSE "ok"

\* The command line of a recording: it carries 'recordingDuration'.
RecordingLine(cmdName, duration) ==
    Line(cmdName, sockTimeout) @@ [recordingDuration |-> duration]

do_basic_recording(zoom_ratio, duration) ==
    IF RecordingCheck(zoom_ratio, props) # "ok"
    THEN RaisedBeforeSend("do_basic_recording", RecordingCheck(zoom_ratio, props))
    ELSE SentLine("do_basic_recording", RecordingLine("doBasicRecording", duration),
                  SOCK_TIMEOUT + EXTRA_SOCK_TIMEOUT)

do_basic_recording_response(data) ==
    Answered("do_basic_recording", data, "recordingResponse")

do_preview_recording(zoom_ratio, duration) ==
    IF RecordingCheck(zoom_ratio, props) # "ok"
    THEN RaisedBeforeSend("do_preview_recording", RecordingCheck(zoom_ratio, props))
    ELSE SentLine("do_preview_recording", RecordingLine("doPreviewRecording", duration),
                  SOCK_TIMEOUT + EXTRA_SOCK_TIMEOUT)

do_preview_recording_response(data) ==
    Answered("do_preview_recording", data, "recordingResponse")

get_supported_preview_sizes ==
    Sent("get_supported_preview_sizes", "getSupportedPreviewSizes",
         SOCK_TIMEOUT + EXTRA_SOCK_TIMEOUT)

get_supported_preview_sizes_response(data) ==
    AnsweredWithString("get_supported_preview_sizes", data, "supportedPreviewSizes")

get_display_size ==
    Sent("get_display_size", "getDisplaySize", SOCK_TIMEOUT + EXTRA_SOCK_TIMEOUT)

get_display_size_response(data) ==
    AnsweredWithString("get_display_size", data, "displaySize")

measure_camera_launch_ms ==
    Sent("measure_camera_launch_ms", "measureCameraLaunchMs", SOCK_TIMEOUT_FOR_PERF_MEASURE)

measure_camera_launch_ms_response(data) ==
    IF data.tag # "cameraLaunchMs"
    THEN Ends("measure_camera_launch_ms", data, "CameraItsError", NoRet, SOCK_TIMEOUT)
    ELSE Ends("measure_camera_launch_ms", data, "returned", ValueOf(data), SOCK_TIMEOUT)

\* do_vibrate sends and reads without touching the timeout.
do_vibrate == Sent("do_vibrate", "doVibrate", sockTimeout)

do_vibrate_response(data) == Answered("do_vibrate", data, "vibrationStarted")

\* A camera id the session was constructed without, and the integer 0.
NoCameraId == "None"
IntZero == "int 0"

\* not self._camera_id
Falsy(id) == id \in {NoCameraId, IntZero, ""}

\* one_id.split(SUB_CAMERA_SEPARATOR)
SplitSub(one_id) == IF one_id = "1.2" THEN <<"1", "2">> ELSE <<one_id>>

\* parse_camera_ids, for ids of one or two parts.
parse_camera_ids(ids) ==
    [k \in DOMAIN ids |->
        LET one_combo == SplitSub(ids[k])
        IN  IF Len(one_combo) = 1 THEN [id |-> one_combo[1], sub_id |-> NoCam]
            ELSE [id |-> one_combo[1], sub_id |-> one_combo[2]]]

\* __open_camera settles the ids before it sends: a session without a camera
\* id takes 0, or the one camera the command line names.
OpenedCamera ==
    IF ~Falsy(self_camera_id) THEN [id |-> self_camera_id, sub_id |-> hidden_physical_id]
    ELSE LET camera_id_combos == parse_camera_ids(argv)
         IN  IF Len(camera_id_combos) = 1 THEN camera_id_combos[1]
             ELSE [id |-> IntZero, sub_id |-> hidden_physical_id]

\* The 'open' command carries the camera id.
OpenLine == Line("open", sockTimeout) @@ [cameraId |-> OpenedCamera.id]

\* __open_camera and __close_camera.
open_camera ==
    /\ Written("open_camera", OpenLine, sockTimeout)
    /\ self_camera_id' = OpenedCamera.id
    /\ hidden_physical_id' = OpenedCamera.sub_id
    /\ UNCHANGED props

ExpectsClosed(data) == Answered("open_camera", data, "cameraClosed")

open_camera_response(data) == Answered("open_camera", data, "cameraOpened")

close_camera == Sent("close_camera", "close", sockTimeout)

close_camera_response(data) == Answered("close_camera", data, "cameraClosed")

\* __enter__: __close_camera, then __open_camera.
enter == Sent("__enter__", "close", sockTimeout) /\ UNCHANGED self_camera_id

enter_closed(data) ==
    /\ pc = "__enter__"
    /\ IF data.tag # "cameraClosed"
       THEN Ends("__enter__", data, "CameraItsError", NoRet, sockTimeout) /\ UNCHANGED self_camera_id
       ELSE /\ pc' = "__enter__:open"
            /\ nread' = nread + 1
            /\ response' = data
            /\ sockOut' = Append(sockOut, OpenLine)
            /\ self_camera_id' = OpenedCamera.id
            /\ hidden_physical_id' = OpenedCamera.sub_id
            /\ UNCHANGED <<op, outcome, ret, sockTimeout, props, captureVars, simpleVars,
                           convergeVars, dev>>

enter_opened(data) ==
    IF data.tag # "cameraOpened" THEN Ends("__enter__:open", data, "CameraItsError", NoRet, sockTimeout)
    ELSE Ends("__enter__:open", data, "returned", NoRet, sockTimeout)

\* __exit__: __close_camera, then self.sock.close(). A socket that was closed
\* refuses the send.
exit ==
    /\ IF sock = "open" THEN Sent("__exit__", "close", sockTimeout)
       ELSE RaisedBeforeSend("__exit__", "OSError")
    /\ UNCHANGED sock

exit_response(data) ==
    IF data.tag # "cameraClosed"
    THEN Ends("__exit__", data, "CameraItsError", NoRet, sockTimeout) /\ UNCHANGED sock
    ELSE Ends("__exit__", data, "returned", NoRet, sockTimeout) /\ sock' = "closed"

start_sensor_events == Sent("start_sensor_events", "startSensorEvents", sockTimeout)

start_sensor_events_response(data) ==
    Answered("start_sensor_events", data, "sensorEventsStarted")

set_audio_restriction == Sent("set_audio_restriction", "setAudioRestriction", sockTimeout)

set_audio_restriction_response(data) ==
    Answered("set_audio_restriction", data, "audioRestrictionSet")

is_primary_camera == Sent("is_primary_camera", "isPrimaryCamera", sockTimeout)

is_primary_camera_response(data) == Answered("is_primary_camera", data, "primaryCamera")

\* ------------------------------------------------------------ do_3a, do_autoframing

\* An operation with a convergence loop, up to and including the send.
SentConverging(o, cmdName, zoom_ratio, l3a) ==
    IF RecordingCheck(zoom_ratio, props) # "ok"
    THEN RaisedBeforeSend(o, RecordingCheck(zoom_ratio, props))
    ELSE /\ pc = "idle"
         /\ pc' = o
         /\ op' = o
         /\ outcome' = "none"
         /\ ret' = NoRet
         /\ sockOut' = <<Line(cmdName, sockTimeout)>>
         /\ nread' = 0
         /\ response' = NoResponse
         /\ dev' = NoDev
         /\ cmd' = NoCmd
         /\ cam_ids' = <<>>
         /\ bufs' = <<>>
         /\ yuv_bufs' = <<>>
         /\ nbufs' = 0
         /\ mds' = <<>>
         /\ physical_mds' = <<>>
         /\ widths' = <<>>
         /\ heights' = <<>>
         /\ simple_fmt' = NoFormat
         /\ capture_results_returned' = FALSE
         /\ converged' = FALSE
         /\ locals3a' = l3a
         /\ UNCHANGED <<sockTimeout, sessionVars>>

ConvergingResending(o, data, goesOn, e, r, c, l3a) ==
    /\ pc = o
    /\ nread' = nread + 1
    /\ response' = data
    /\ sockOut' = IF goesOn THEN Append(sockOut, sockOut[1]) ELSE sockOut
    /\ IF goesOn
       THEN /\ converged' = c
            /\ locals3a' = l3a
            /\ UNCHANGED <<pc, outcome, ret>>
       ELSE /\ converged' = c
            /\ locals3a' = l3a
            /\ pc' = "idle"
            /\ outcome' = e
            /\ ret' = r
    /\ UNCHANGED <<op, sockTimeout, sessionVars, captureVars, simpleVars, dev>>

\* One pass of a convergence loop: the operation goes on reading, or ends
\* with outcome e and value r.
Converging(o, data, goesOn, e, r, c, l3a) ==
    /\ pc = o
    /\ nread' = nread + 1
    /\ response' = data
    /\ IF goesOn
       THEN /\ converged' = c
            /\ locals3a' = l3a
            /\ UNCHANGED <<pc, outcome, ret>>
       ELSE /\ converged' = c
            /\ locals3a' = l3a
            /\ pc' = "idle"
            /\ outcome' = e
            /\ ret' = r
    /\ UNCHANGED <<op, sockOut, sockTimeout, sessionVars, captureVars, simpleVars, dev>>

do_3a(do_ae, do_awb, do_af, get_results, mono_camera, zoom_ratio) ==
    SentConverging("do_3a", "do3A", zoom_ratio,
                   [No3A EXCEPT !.do_ae = do_ae, !.do_awb = do_awb, !.do_af = do_af,
                                !.get_results = get_results, !.mono_camera = mono_camera])

\* vals = data['strValue'].split(), for the strings the responses carry.
Split(strValue) ==
    CASE strValue = "" -> <<>>
      [] strValue = "1 2" -> <<"1", "2">>
      [] strValue = "1 2 3 4 5" -> <<"1", "2", "3", "4", "5">>
      [] OTHER -> <<strValue>>

\* int(v) and float(v) accept a string of digits.
IsNumber(v) == v \in {"1", "2", "3", "4", "5"}

\* int(v), float(v)
Number(v) ==
    CASE v = "1" -> 1 [] v = "2" -> 2 [] v = "3" -> 3 [] v = "4" -> 4 [] v = "5" -> 5

\* [float(f) for f in vals[a:b]], with Python's slice from a + 1 to b.
Floats(vals, a, b) ==
    LET last == IF b < Len(vals) THEN b ELSE Len(vals)
    IN  [k \in 1..(IF last > a THEN last - a ELSE 0) |-> Number(vals[a + k])]

\* What parsing the values of a 3A result raises, "ok" if nothing.
ParseError3A(data, l) ==
    LET vals == Split(data.strValue)
    IN  CASE data.tag = "aeResult" /\ l.do_ae ->
               IF (\A k \in DOMAIN vals : IsNumber(vals[k])) /\ Len(vals) = 2
               THEN "ok" ELSE "ValueError"
          [] data.tag = "afResult" /\ l.do_af ->
               IF vals = <<>> THEN "IndexError"
               ELSE IF IsNumber(vals[1]) THEN "ok" ELSE "ValueError"
          [] data.tag = "awbResult" ->
               IF \A k \in DOMAIN vals : IsNumber(vals[k]) THEN "ok" ELSE "ValueError"
          [] OTHER -> "ok"

StoredNothing(data, l) == l

\* The locals after a 3A result is stored.
Stored3A(data, l) ==
    LET vals == Split(data.strValue)
    IN  CASE data.tag = "aeResult" /\ l.do_ae ->
               [l EXCEPT !.ae_sens = Some(<<Number(vals[1])>>),
                         !.ae_exp = Some(<<Number(vals[2])>>)]
          [] data.tag = "afResult" /\ l.do_af ->
               [l EXCEPT !.af_dist = Some(<<Number(vals[1])>>)]
          [] data.tag = "awbResult" ->
               [l EXCEPT !.awb_gains = Some(Floats(vals, 0, 4)),
                         !.awb_transform = Some(Floats(vals, 4, Len(vals)))]
          [] OTHER -> l

\* The results alone decide.
ResultsSuffice(l, c) ==
    IF \/ l.do_ae /\ l.ae_sens.none
       \/ ~l.mono_camera /\ l.do_awb /\ l.awb_gains.none
       \/ l.do_af /\ l.af_dist.none
    THEN "CameraItsError"
    ELSE "returned"

\* After '3aDone': the outcome of do_3a.
Outcome3A(l, c) ==
    IF c /\ ~l.get_results THEN "returned"
    ELSE IF \/ l.do_ae /\ l.ae_sens.none
            \/ ~l.mono_camera /\ l.do_awb /\ l.awb_gains.none
            \/ l.do_af /\ l.af_dist.none
            \/ ~c
    THEN "CameraItsError"
    ELSE "returned"

\* A return of the stored values whether or not they were asked for.
ReturnsStored(l, c) ==
    [shape |-> <<>>,
     rets |-> <<[ae_sens |-> l.ae_sens, ae_exp |-> l.ae_exp, awb_gains |-> l.awb_gains,
                 awb_transform |-> l.awb_transform, af_dist |-> l.af_dist]>>]

\* What do_3a returns.
Return3A(l, c) ==
    IF c /\ ~l.get_results
    THEN [shape |-> <<>>,
          rets |-> <<[ae_sens |-> NoneValue, ae_exp |-> NoneValue, awb_gains |-> NoneValue,
                      awb_transform |-> NoneValue, af_dist |-> NoneValue]>>]
    ELSE [shape |-> <<>>,
          rets |-> <<[ae_sens |-> l.ae_sens, ae_exp |-> l.ae_exp, awb_gains |-> l.awb_gains,
                      awb_transform |-> l.awb_transform, af_dist |-> l.af_dist]>>]

BreaksWhenConverged(tag) == tag \in {"3aConverged", "3aDone"}

\* elif data[_TAG_STR] == '3aDone': break
Breaks(tag) == tag = "3aDone"

do_3a_loop(data) ==
    LET l == locals3a
        e == ParseError3A(data, l)
    IN  IF e # "ok" THEN Converging("do_3a", data, FALSE, e, NoRet, converged, l)
        ELSE IF data.tag \in {"aeResult", "afResult", "awbResult"}
        THEN Converging("do_3a", data, TRUE, "none", NoRet, converged, Stored3A(data, l))
        ELSE IF data.tag = "3aConverged" /\ ~Breaks(data.tag)
        THEN Converging("do_3a", data, TRUE, "none", NoRet, TRUE, l)
        ELSE IF Breaks(data.tag)
        THEN Converging("do_3a", data, FALSE, Outcome3A(l, converged),
                        IF Outcome3A(l, converged) = "returned"
                        THEN Return3A(l, converged) ELSE NoRet,
                        converged, l)
        ELSE Converging("do_3a", data, FALSE, "CameraItsError", NoRet, converged, l)

do_autoframing(zoom_ratio) ==
    SentConverging("do_autoframing", "doAutoframing", zoom_ratio, No3A)

\* A loop that also stops at 'autoframingConverged'.
StopsWhenConverged(data) ==
    IF data.tag \in {"autoframingConverged", "autoframingDone"}
    THEN Converging("do_autoframing", data, FALSE, "returned",
                    [shape |-> <<>>, rets |-> <<"None">>], TRUE, No3A)
    ELSE Converging("do_autoframing", data, FALSE, "CameraItsError", NoRet, converged, No3A)

do_autoframing_loop(data) ==
    IF data.tag = "autoframingConverged"
    THEN Converging("do_autoframing", data, TRUE, "none", NoRet, TRUE, No3A)
    ELSE IF data.tag = "autoframingDone"
    THEN Converging("do_autoframing", data, FALSE,
                    IF converged THEN "returned" ELSE "CameraItsError",
                    IF converged THEN [shape |-> <<>>, rets |-> <<"None">>] ELSE NoRet,
                    converged, No3A)
    ELSE Converging("do_autoframing", data, FALSE, "CameraItsError", NoRet, converged, No3A)

\* __read_response_from_socket finds the socket closed by the device; the
\* exception passes through the operation that was reading.
socket_closed ==
    /\ pc # "idle"
    /\ pc' = "idle"
    /\ outcome' = "CameraItsError"
    /\ UNCHANGED <<op, ret, sockTimeout, sockOut, nread, response, sessionVars, captureVars,
                   simpleVars, convergeVars, dev>>

\* ------------------------------------------------------------ __read_response_from_socket

\* The locals of __read_response_from_socket: where it is ("idle" when not
\* called, "line", "payload", "returned", "raised"), chars, jobj, n, the bytes
\* received into buf so far, whether the loop of the payload has made an odd
\* number of passes, the exception it raised and the stream position at the
\* call.
NoJobj == [ok |-> FALSE, tag |-> "None", hasSize |-> FALSE, bufValueSize |-> 0]

NoRead ==
    [at |-> "idle", chars |-> <<>>, jobj |-> NoJobj, n |-> 0, buf |-> <<>>, hasBuf |-> FALSE,
     odd |-> FALSE, err |-> "none", start |-> 0]

\* The bytes of the model: a line is '{', a tag character, optionally '#' and
\* a digit for "bufValueSize", '}' and a newline; a payload byte is "x",
\* a newline or '{'.
DigitChars == <<"0", "1", "2", "3", "4", "5", "6", "7", "8", "9">>

TagChars == {"v", "e"}

TagOfChar(c) == IF c = "v" THEN "vibrationStarted" ELSE "error"

PayloadBytes == {"x", "\n"}

\* The device's side: the bytes of a frame.
Encode(frame) ==
    <<"{", frame.tagChar>>
    \o (IF frame.hasSize THEN <<"#", DigitChars[Len(frame.payload) + 1]>> ELSE <<>>)
    \o <<"}", "\n">>
    \o frame.payload

\* json.loads(line): the object of a well-formed line (trailing white space
\* allowed), ok = FALSE where json.loads raises.
Loads(line) ==
    LET body == IF line # <<>> /\ line[Len(line)] = "\n"
                THEN SubSeq(line, 1, Len(line) - 1) ELSE line
        framed == Len(body) >= 3 /\ body[1] = "{" /\ body[Len(body)] = "}" /\ body[2] \in TagChars
    IN  IF framed /\ Len(body) = 3
        THEN [ok |-> TRUE, tag |-> TagOfChar(body[2]), hasSize |-> FALSE, bufValueSize |-> 0]
        ELSE IF /\ framed
                /\ Len(body) = 5
                /\ body[3] = "#"
                /\ \E d \in DOMAIN DigitChars : DigitChars[d] = body[4]
        THEN [ok |-> TRUE, tag |-> TagOfChar(body[2]), hasSize |-> TRUE,
              bufValueSize |-> (CHOOSE d \in DOMAIN DigitChars : DigitChars[d] = body[4]) - 1]
        ELSE NoJobj

\* The bytes of the stream not yet consumed.
Available == Len(stream) - pos

\* self.sock.recv(1).decode('utf-8'): the next byte, '' when the device has
\* closed the connection, and socket.timeout when nothing comes.
Recv1 ==
    IF Available > 0 THEN stream[pos + 1]
    ELSE IF closed THEN ""
    ELSE "socket.timeout"

NeverEmpty(ch) == FALSE

\* if not ch
NotCh(ch) == ch = ""

EndsWithBrace(cs) == cs # <<>> /\ cs[Len(cs)] = "}"

\* The negation of the condition of 'while not chars or chars[-1] != "\n"'.
LineComplete(cs) == cs # <<>> /\ cs[Len(cs)] = "\n"

ChunkUnlimited(want, available) == 1..available

\* nbytes of self.sock.recv_into(view, n) when bytes are there: at least one
\* and at most n of them, as the channel splits them.
Chunk(want, available) == 1..(IF want < available THEN want ELSE available)

\* The call: chars = []
ReadBegins == [NoRead EXCEPT !.at = "line", !.start = pos]

\* One pass of the loop of the line: recv(1), the check of ch, the append;
\* and, the line complete, json.loads and the set-up of the payload.
read_line_byte ==
    /\ rd.at = "line"
    /\ LET ch == Recv1
           cs == Append(rd.chars, ch)
           j == Loads(cs)
       IN  IF ch = "socket.timeout"
           THEN /\ rd' = [rd EXCEPT !.at = "raised", !.err = "socket.timeout"]
                /\ pos' = pos
           ELSE IF NotCh(ch)
           THEN /\ rd' = [rd EXCEPT !.at = "raised", !.err = "CameraItsError"]
                /\ pos' = pos
           ELSE /\ pos' = IF ch = "" THEN pos ELSE pos + 1
                /\ IF ~LineComplete(cs)
                   THEN rd' = [rd EXCEPT !.chars = cs]
                   ELSE IF ~j.ok
                   THEN rd' = [rd EXCEPT !.chars = cs, !.at = "raised", !.err = "JSONDecodeError"]
                   ELSE IF ~j.hasSize
                   THEN rd' = [rd EXCEPT !.chars = cs, !.jobj = j, !.at = "returned"]
                   ELSE rd' = [rd EXCEPT !.chars = cs, !.jobj = j, !.n = j.bufValueSize,
                                         !.hasBuf = TRUE,
                                         !.at = IF j.bufValueSize > 0 THEN "payload"
                                                ELSE "returned"]
    /\ UNCHANGED <<stream, closed>>

\* One pass of the loop of the payload: nbytes = recv_into(view, n); the view
\* moves on by nbytes and n goes down by nbytes. A closed connection gives
\* nbytes = 0, which the loop does not look at.
read_payload ==
    /\ rd.at = "payload"
    /\ IF Available > 0
       THEN \E nbytes \in Chunk(rd.n, Available) :
               /\ pos' = pos + nbytes
               /\ rd' = [rd EXCEPT !.buf = @ \o SubSeq(stream, pos + 1, pos + nbytes),
                                   !.n = @ - nbytes,
                                   !.odd = ~@,
                                   !.at = IF rd.n - nbytes > 0 THEN "payload" ELSE "returned"]
       ELSE IF closed
       THEN /\ rd' = [rd EXCEPT !.odd = ~@]
            /\ pos' = pos
       ELSE /\ rd' = [rd EXCEPT !.at = "raised", !.err = "socket.timeout"]
            /\ pos' = pos
    /\ UNCHANGED <<stream, closed>>

\* An exception of __read_response_from_socket passes through the operation
\* that called it.
read_raised ==
    /\ pc # "idle"
    /\ rd.at = "raised"
    /\ pc' = "idle"
    /\ outcome' = rd.err
    /\ UNCHANGED <<op, ret, sockTimeout, sockOut, nread, response, sessionVars, captureVars,
                   simpleVars, convergeVars, dev>>

\* data of the caller: the object __read_response_from_socket returned.
DataOf(j) == [tag |-> j.tag, strValue |-> ""]

\* ------------------------------------------------------------ __init_socket_port

CLIENT_PORT_START == 6000
REMOTE_PORT == 6000
LOCK_PORT == CLIENT_PORT_START + MAX_NUM_PORTS

Procs == 1..NumProcs

\* No port: port = None.
NoPort == 0

\* A line of 'adb forward --list': "<device_id> tcp:<host_port> tcp:<remote_port>".
Forward(device, local, remote) ==
    [device |-> device, local |-> local, remote |-> remote, remote_tcp |-> TRUE]

\* adb: the line of a forwarding to a socket of the device that is not a TCP
\* port: "<device_id> tcp:<host_port> localabstract:<name>".
ForwardAbstract(device, local) ==
    [device |-> device, local |-> local, remote |-> NoPort, remote_tcp |-> FALSE]

\* The locals of __init_socket_port in a process that has created socket_lock
\* and not yet tried to bind it.
Allocating(device) ==
    [at |-> "bind", device_id |-> device, i |-> 0, port |-> NoPort, used_ports |-> <<>>,
     p |-> CLIENT_PORT_START, err |-> "none", msg |-> ""]

BindAlways(holders) == TRUE

\* The local ports of the host a socket of another program is bound to: the
\* adb server listens on the local port of every forwarding of its list.
PortInUse(port) ==
    \/ port \in busy_ports
    \/ \E k \in DOMAIN forward_list : forward_list[k].local = port

\* socket_lock.bind((IPADDR, LOCK_PORT)) succeeds when no other socket is
\* bound to the port: neither the lock socket of another allocation nor a
\* socket of another program.
BindSucceeds(holders) == holders = {} /\ ~PortInUse(LOCK_PORT)

\* One pass of the loop that binds the lock: bind, and on an error sleep and
\* try again, or raise after the last attempt.
\* A loop that never reaches its last round.
NeverLastAttempt(i) == FALSE

\* The attempt numbered i (from 0) is the last of range(num_retries).
LastAttempt(i) == i = num_retries - 1

bind_lock(proc) ==
    /\ alloc[proc].at = "bind"
    /\ IF BindSucceeds(lock_port)
       THEN /\ lock_port' = lock_port \cup {proc}
            /\ alloc' = [alloc EXCEPT ![proc].at = "list"]
       ELSE /\ lock_port' = lock_port
            /\ IF LastAttempt(alloc[proc].i)
               THEN alloc' = [alloc EXCEPT ![proc].at = "raised", ![proc].err = "CameraItsError",
                                           ![proc].msg = "socket lock returns error"]
               ELSE alloc' = [alloc EXCEPT ![proc].i = @ + 1]
    /\ UNCHANGED <<forward_list, busy_ports>>

\* The loop over the lines of the list: the first line of the device that
\* forwards to REMOTE_PORT gives the port and ends the loop; the local port
\* of every line before it goes to used_ports, unless the line is skipped.
MatchesNothing(line, device) == FALSE

\* forward_info[0] == self._device_id and remote_p == REMOTE_PORT
Matches(line, device) == line.device = device /\ line.remote = REMOTE_PORT

\* The lines the loop looks at: three fields at least, the second and the
\* third of the form tcp:<port>.
Parsed(line) == line.remote_tcp

RECURSIVE ScanList(_, _, _, _)
ScanList(lines, k, device, used) ==
    IF k > Len(lines) THEN [port |-> NoPort, used_ports |-> used]
    ELSE IF ~Parsed(lines[k]) THEN ScanList(lines, k + 1, device, used)
    ELSE IF Matches(lines[k], device)
    THEN [port |-> lines[k].local, used_ports |-> used]
    ELSE ScanList(lines, k + 1, device, Append(used, lines[k].local))

\* 'adb forward --list' and the loop over its lines.
read_forward_list(proc) ==
    /\ alloc[proc].at = "list"
    /\ LET r == ScanList(forward_list, 1, alloc[proc].device_id, <<>>)
       IN  alloc' = [alloc EXCEPT ![proc].port = r.port,
                                 ![proc].used_ports = r.used_ports,
                                 ![proc].at = IF r.port = NoPort THEN "find" ELSE "close"]
    /\ UNCHANGED <<lock_port, forward_list, busy_ports>>

\* adb: 'adb -s <device> forward tcp:<local> tcp:<remote>' fails when another
\* program holds the local port. On a local port adb forwards already the
\* command succeeds, as --no-rebind is not given.
AdbForwardFails(device, local) == local \in busy_ports

\* adb: the list after a forward that succeeded: the rule replaces the one
\* of the local port, whatever device it was for, or is added at the end.
AdbForwarded(device, local) ==
    IF \E k \in DOMAIN forward_list : forward_list[k].local = local
    THEN [k \in DOMAIN forward_list |->
            IF forward_list[k].local = local THEN Forward(device, local, REMOTE_PORT)
            ELSE forward_list[k]]
    ELSE Append(forward_list, Forward(device, local, REMOTE_PORT))

\* check_port_availability(p, used_ports): None for a used port; otherwise
\* it runs adb forward and returns whether that raised no error.
check_port_availability(check_port, used_ports, device) ==
    IF check_port \in Range(used_ports) THEN FALSE
    ELSE ~AdbForwardFails(device, check_port)

\* One pass of the loop over the candidate ports; after the last candidate
\* with no port found, CameraItsError is raised with socket_lock still bound.
find_port(proc) ==
    /\ alloc[proc].at = "find"
    /\ LET a == alloc[proc]
           tried == a.p \notin Range(a.used_ports)
           found == check_port_availability(a.p, a.used_ports, a.device_id)
       IN  /\ forward_list' = IF tried /\ found THEN AdbForwarded(a.device_id, a.p)
                              ELSE forward_list
           /\ IF found
              THEN alloc' = [alloc EXCEPT ![proc].port = a.p, ![proc].at = "close"]
              ELSE IF a.p = CLIENT_PORT_START + MAX_NUM_PORTS - 1
              THEN alloc' = [alloc EXCEPT ![proc].at = "raised", ![proc].err = "CameraItsError",
                                          ![proc].msg = " cannot find an available port"]
              ELSE alloc' = [alloc EXCEPT ![proc].p = @ + 1]
    /\ UNCHANGED <<lock_port, busy_ports>>

\* socket_lock.close()
close_lock(proc) ==
    /\ alloc[proc].at = "close"
    /\ lock_port' = lock_port \ {proc}
    /\ alloc' = [alloc EXCEPT ![proc].at = "connect"]
    /\ UNCHANGED <<forward_list, busy_ports>>

\* self.sock.connect((IPADDR, port)); self.sock.settimeout(SOCK_TIMEOUT)
connect_socket(proc) ==
    /\ alloc[proc].at = "connect"
    /\ alloc' = [alloc EXCEPT ![proc].at = "connected"]
    /\ UNCHANGED <<lock_port, forward_list, busy_ports>>

\* After __init_socket_port has raised with socket_lock bound, the socket
\* object is closed when the interpreter frees it, which may be at any time
\* or not before the process ends.
lock_collected(proc) ==
    /\ alloc[proc].at = "raised"
    /\ proc \in lock_port
    /\ lock_port' = lock_port \ {proc}
    /\ UNCHANGED <<forward_list, busy_ports, alloc>>

\* ------------------------------------------------------------ inputs

Props1 == [available |-> TRUE, yuv |-> <<MaxDim, MaxDim>>]

Surface(f, c, w, h) == [format |-> f, physicalCamera |-> c, width |-> w, height |-> h]

\* Surfaces of the calls whose validation is checked.
ValidatedSurfaces ==
    {Surface("yuv", NoCam, 0, 0), Surface("yuv", NoCam, 1, MaxDim),
     Surface("yuv", NoCam, MaxDim, 1), Surface("yuv", NoCam, MaxDim, MaxDim),
     Surface("yuv", NoCam, 1, 0), Surface("yuv", "2", 1, MaxDim),
     Surface("jpeg", NoCam, 0, 0), Surface("jpeg", "2", 0, 0),
     Surface("raw", NoCam, 0, 0), Surface("dng", NoCam, 0, 0),
     Surface(NoFormat, NoCam, 1, MaxDim)}

\* Surfaces of the calls whose frames are received.
ReceivedSurfaces ==
    {Surface("yuv", NoCam, 0, 0), Surface("yuv", NoCam, 1, MaxDim),
     Surface("yuv", "2", 1, MaxDim),
     Surface("jpeg", NoCam, 1, 1), Surface("jpeg", "3", 0, 0),
     Surface("y8", "2", 0, 0), Surface("priv", NoCam, 0, 0)}

SeqsUpTo(S, n) == UNION {[1..k -> S] : k \in 0..n}

\* out_surfaces: None, one dict, or a list of dicts.
OutSurfaces(S, n) ==
    {[kind |-> "None", surfs |-> <<>>]}
    \cup {[kind |-> "dict", surfs |-> <<s>>] : s \in S}
    \cup {[kind |-> "list", surfs |-> l] : l \in SeqsUpTo(S, n)}

\* cap_request: one request, or a list of requests; each request is its
\* android.sensor.exposureTime (NoExp when it has none).
CapRequests(E, n) ==
    {[isList |-> FALSE, reqs |-> <<e>>] : e \in E}
    \cup {[isList |-> TRUE, reqs |-> l] : l \in SeqsUpTo(E, n) \ {<<>>}}

\* ------------------------------------------------------------ specifications

SessionFields(P, H) ==
    /\ pc = "idle"
    /\ op = "None"
    /\ outcome = "none"
    /\ ret = NoRet
    /\ sockTimeout = SOCK_TIMEOUT
    /\ sockOut = <<>>
    /\ nread = 0
    /\ response = NoResponse
    /\ props \in P
    /\ hidden_physical_id \in H
    /\ CaptureLocalsInit
    /\ dev = NoDev
    /\ nsent = 0
    /\ ncompleted = 0

\* The session was constructed with the camera id camera_id, no 'camera='
\* argument is on the command line, and its socket is connected.
ContextIdle ==
    /\ sock = "open"
    /\ self_camera_id = camera_id
    /\ argv = <<>>
    /\ opened = <<camera_id>>
    /\ helper = NoHelper
    /\ wire = NoWire

\* No process is allocating a port.
PortsIdle ==
    /\ lock_port = {}
    /\ forward_list = <<>>
    /\ busy_ports = {}
    /\ alloc = <<>>

\* Nothing is read byte by byte.
ChannelIdle ==
    /\ stream = <<>>
    /\ closed = FALSE
    /\ pos = 0
    /\ rd = NoRead

\* A session whose responses are taken frame by frame.
SessionInit(P, H) == SessionFields(P, H) /\ ChannelIdle /\ PortsIdle /\ ContextIdle

\* A step of the session alone.
Session(A) == A /\ UNCHANGED <<otherVars, ctxVars>>

\* do_capture's checks: the session's first call, over the validated surfaces,
\* up to the send.
InitValidate == SessionInit({NoProps, Props1}, {NoCam, "3"})

CallValidated ==
    /\ op = "None"
    /\ \E out_surfaces \in OutSurfaces(ValidatedSurfaces, MaxSurfaces) :
            do_capture([isList |-> FALSE, reqs |-> <<NoExp>>], out_surfaces, "None", "None")

NextValidate == Session(CallValidated)

SpecValidate == InitValidate /\ [][NextValidate]_vars

\* The session's first call of do_capture against a device that reports the
\* sizes it produces.
InitCapture == SessionInit({Props1}, {NoCam})

CallReceived ==
    /\ op = "None"
    /\ \E cap_request \in CapRequests({NoExp}, MaxBurst),
          out_surfaces \in OutSurfaces(ReceivedSurfaces, MaxStreams) :
            do_capture(cap_request, out_surfaces, "None", "None")

Receive ==
    \E d \in DeviceMoves : do_capture_loop(d.frame) /\ dev' = d.dev

NextCapture == Session(CallReceived) \/ Session(Receive)

SpecCapture == InitCapture /\ [][NextCapture]_vars

\* do_capture against a device that may report another size than it produces.
ReceiveAnySize ==
    \E d \in DeviceMovesAnySize : do_capture_loop(d.frame) /\ dev' = d.dev

NextCaptureAnySize == Session(CallReceived) \/ Session(ReceiveAnySize)

SpecCaptureAnySize == InitCapture /\ [][NextCaptureAnySize]_vars

\* A session: any sequence of operations, each answered by the device with
\* the frames of its command, with a response of any tag, or not at all.
SessionSurfaces ==
    {Surface("yuv", NoCam, 1, MaxDim), Surface("jpeg", NoCam, 1, 1),
     Surface("yuv", NoCam, 0, 0), Surface("yuv", "2", 1, MaxDim)}

ResponseTags ==
    {"cameraProperties", "sensorEvents", "cameraIds", "recordingResponse", "supportedPreviewSizes",
     "displaySize", "cameraLaunchMs", "vibrationStarted", "cameraOpened", "cameraClosed",
     "sensorEventsStarted", "audioRestrictionSet", "primaryCamera", "error"}

\* The frames a device sends during do_3a and do_autoframing.
ConvergenceTags ==
    {"aeResult", "afResult", "awbResult", "3aConverged", "3aDone", "autoframingConverged",
     "autoframingDone", "error"}

\* A result frame carries its values in strValue, or nothing.
ConvergenceFrames ==
    {[tag |-> t, strValue |-> v] : t \in {"aeResult", "afResult", "awbResult"}, v \in {"", "1 2"}}
    \cup [tag : ConvergenceTags \ {"aeResult", "afResult", "awbResult"}, strValue : {""}]

Responses == [tag : ResponseTags, strValue : {"", "1x1"}]

ZoomRatios == {"None", "in_range", "out_of_range"}

InitSession == SessionInit({NoProps}, {NoCam})

CallCapture ==
    \E e \in {NoExp, Exposure(LongExposure * SEC_TO_NSEC)},
       out_surfaces \in OutSurfaces({Surface("yuv", NoCam, 1, MaxDim)}, 1),
       reprocess_format \in {"None", "yuv"},
       repeat_request \in {"None", "request"} :
        do_capture([isList |-> FALSE, reqs |-> <<e>>], out_surfaces,
                   reprocess_format, repeat_request)

CallSimpleCapture ==
    \E s \in SessionSurfaces : do_capture_with_flash(s) \/ do_capture_with_extensions(s)

ReceiveSimple ==
    \E d \in DeviceMovesAnySize : do_simple_capture_loop(d.frame) /\ dev' = d.dev

NextSession ==
    \/ Session(CallCapture)
    \/ Session(Receive)
    \/ Session(CallSimpleCapture)
    \/ Session(ReceiveSimple)
    \/ Session(get_camera_properties)
    \/ Session(get_sensor_events)
    \/ Session(get_camera_ids)
    \/ Session(get_supported_preview_sizes)
    \/ Session(get_display_size)
    \/ Session(measure_camera_launch_ms)
    \/ Session(do_vibrate)
    \/ Session(open_camera)
    \/ Session(close_camera)
    \/ Session(start_sensor_events)
    \/ Session(set_audio_restriction)
    \/ Session(is_primary_camera)
    \/ \E do_ae, get_results \in BOOLEAN : Session(do_3a(do_ae, TRUE, FALSE, get_results, FALSE, "None"))
    \/ \E z \in ZoomRatios : Session(do_autoframing(z))
    \/ \E data \in ConvergenceFrames :
        /\ nread < MaxReads
        /\ \/ Session(do_3a_loop(data))
           \/ Session(do_autoframing_loop(data))
    \/ \E z \in ZoomRatios, d \in 1..MaxDuration : Session(do_basic_recording(z, d))
    \/ \E z \in ZoomRatios, d \in 1..MaxDuration : Session(do_preview_recording(z, d))
    \/ \E data \in Responses :
        \/ Session(get_camera_properties_response(data, Props1))
        \/ Session(get_sensor_events_response(data))
        \/ Session(get_camera_ids_response(data))
        \/ Session(do_basic_recording_response(data))
        \/ Session(do_preview_recording_response(data))
        \/ Session(get_supported_preview_sizes_response(data))
        \/ Session(get_display_size_response(data))
        \/ Session(measure_camera_launch_ms_response(data))
        \/ Session(do_vibrate_response(data))
        \/ Session(open_camera_response(data))
        \/ Session(close_camera_response(data))
        \/ Session(start_sensor_events_response(data))
        \/ Session(set_audio_restriction_response(data))
        \/ Session(is_primary_camera_response(data))
    \/ Session(socket_closed)

SpecSession == InitSession /\ [][NextSession]_vars

\* A session whose command lines and completed operations are counted: a step
\* adds the lines it writes to nsent, and the end of an operation that wrote a
\* line adds one to ncompleted.
LinesWritten == Len(sockOut') - (IF pc = "idle" THEN 0 ELSE Len(sockOut))

Counted(A) ==
    /\ pc = "idle" => nsent < MaxCommands
    /\ A
    /\ UNCHANGED <<recvVars, portVars, ctxVars>>
    /\ nsent' = nsent + LinesWritten
    /\ ncompleted' = ncompleted + (IF pc # "idle" /\ pc' = "idle" THEN 1 ELSE 0)

NextCounted ==
    \/ Counted(CallCapture)
    \/ Counted(Receive)
    \/ Counted(CallSimpleCapture)
    \/ Counted(ReceiveSimple)
    \/ Counted(do_vibrate)
    \/ Counted(get_camera_properties)
    \/ \E z \in ZoomRatios, d \in {MaxDuration} : Counted(do_basic_recording(z, d))
    \/ \E z \in ZoomRatios : Counted(do_autoframing(z))
    \/ \E do_ae, get_results \in BOOLEAN :
        Counted(do_3a(do_ae, TRUE, FALSE, get_results, FALSE, "None"))
    \/ \E data \in ConvergenceFrames :
        /\ nread < MaxReads
        /\ \/ Counted(do_3a_loop(data))
           \/ Counted(do_autoframing_loop(data))
    \/ \E data \in Responses :
        \/ Counted(do_vibrate_response(data))
        \/ Counted(get_camera_properties_response(data, Props1))
        \/ Counted(do_basic_recording_response(data))
    \/ Counted(socket_closed)

SpecCounted == InitSession /\ [][NextCounted]_vars

\* do_vibrate over the bytes of the connection: the device has written up to
\* two frames, whole or cut anywhere, and has or has not closed the connection.
Frames ==
    {[tagChar |-> c, hasSize |-> FALSE, payload |-> <<>>] : c \in TagChars}
    \cup {[tagChar |-> "v", hasSize |-> TRUE, payload |-> p] : p \in SeqsUpTo(PayloadBytes, MaxPayload)}

Streams ==
    UNION {{SubSeq(Encode(f1) \o Encode(f2), 1, k) : k \in 0..Len(Encode(f1) \o Encode(f2))} :
           f1 \in Frames, f2 \in Frames}

InitReceive ==
    /\ SessionFields({NoProps}, {NoCam})
    /\ stream \in Streams
    /\ closed \in BOOLEAN
    /\ pos = 0
    /\ rd = NoRead
    /\ PortsIdle
    /\ ContextIdle

CallReading == do_vibrate /\ rd' = ReadBegins /\ UNCHANGED <<stream, closed, pos, countVars, portVars, ctxVars>>

ReadLine == pc # "idle" /\ read_line_byte /\ UNCHANGED <<itsVars, countVars, portVars, ctxVars>>

ReadPayload == pc # "idle" /\ read_payload /\ UNCHANGED <<itsVars, countVars, portVars, ctxVars>>

ReadReturns ==
    /\ rd.at = "returned"
    /\ do_vibrate_response(DataOf(rd.jobj))
    /\ rd' = NoRead
    /\ UNCHANGED <<stream, closed, pos, countVars, portVars, ctxVars>>

ReadRaises == read_raised /\ rd' = NoRead /\ UNCHANGED <<stream, closed, pos, countVars, portVars, ctxVars>>

NextReceive == CallReading \/ ReadLine \/ ReadPayload \/ ReadReturns \/ ReadRaises

SpecReceive == InitReceive /\ [][NextReceive]_vars

\* Several processes open a session at the same time, each for its device,
\* on a host where adb already forwards some ports.
Devices == {"A", "B"}

\* The lines 'adb forward --list' can print: a device under test or another
\* device, a local port of the candidate range or the lock port, the remote
\* control port, another remote port or a socket that is not a TCP port.
ForwardLines ==
    {Forward(d, l, r) : d \in Devices \cup {"C"},
                        l \in CLIENT_PORT_START..LOCK_PORT,
                        r \in {REMOTE_PORT, REMOTE_PORT + 1}}
    \cup {ForwardAbstract(d, l) : d \in Devices \cup {"C"},
                                  l \in CLIENT_PORT_START..LOCK_PORT}

\* The lists of at most MaxForwards lines; adb keeps one rule per local port.
ForwardLists ==
    {fl \in SeqsUpTo(ForwardLines, MaxForwards) :
        \A j, k \in DOMAIN fl : j # k => fl[j].local # fl[k].local}

InitPorts ==
    /\ SessionFields({NoProps}, {NoCam})
    /\ ChannelIdle
    /\ ContextIdle
    /\ lock_port = {}
    /\ forward_list \in {fl \in ForwardLists : Len(fl) <= 1}
    /\ busy_ports \in {{}, {CLIENT_PORT_START}}
    /\ alloc \in [Procs -> {Allocating(d) : d \in Devices}]

\* One process allocates a port, over every list of forwardings.
InitAllocate ==
    /\ SessionFields({NoProps}, {NoCam})
    /\ ChannelIdle
    /\ ContextIdle
    /\ lock_port = {}
    /\ forward_list \in ForwardLists
    /\ busy_ports \in {{}, {CLIENT_PORT_START}}
    /\ alloc \in [{1} -> {Allocating(d) : d \in Devices}]

Ports(A) == A /\ UNCHANGED <<itsVars, countVars, recvVars, ctxVars>>

NextPorts ==
    \E proc \in Procs :
        \/ Ports(bind_lock(proc))
        \/ Ports(read_forward_list(proc))
        \/ Ports(find_port(proc))
        \/ Ports(close_lock(proc))
        \/ Ports(connect_socket(proc))
        \/ Ports(lock_collected(proc))

SpecPorts == InitPorts /\ [][NextPorts]_vars

\* The frames a device sends during do_3a: a result frame with the values
\* the loop reads from it or more, or with none.
Frames3A ==
    [tag : {"aeResult", "afResult", "awbResult"}, strValue : {"", "1 2", "1 2 3 4 5"}]
    \cup [tag : {"3aConverged", "3aDone", "error"}, strValue : {""}]

\* do_3a with every choice of its flags, the device sending any frames.
AutoframingFrames ==
    [tag : {"autoframingConverged", "autoframingDone", "3aConverged", "3aDone", "error"},
     strValue : {""}]

NextConverge ==
    \/ \E do_ae, do_awb, do_af, get_results, mono_camera \in BOOLEAN :
        Session(do_3a(do_ae, do_awb, do_af, get_results, mono_camera, "None"))
    \/ \E data \in Frames3A : nread < Max3AFrames /\ Session(do_3a_loop(data))
    \/ \E z \in ZoomRatios : Session(do_autoframing(z))
    \/ \E data \in AutoframingFrames : nread < MaxReads /\ Session(do_autoframing_loop(data))
    \/ Session(socket_closed)

SpecConverge == InitSession /\ [][NextConverge]_vars

\* The steps of the only process of InitAllocate.
NextAllocate ==
    \E proc \in {1} :
        \/ Ports(bind_lock(proc))
        \/ Ports(read_forward_list(proc))
        \/ Ports(find_port(proc))
        \/ Ports(close_lock(proc))
        \/ Ports(connect_socket(proc))
        \/ Ports(lock_collected(proc))

SpecAllocate == InitAllocate /\ [][NextAllocate]_vars

\* The candidate ports no forwarding rule lists and no other program holds.
FreeCandidates ==
    {c \in CLIENT_PORT_START..(CLIENT_PORT_START + MAX_NUM_PORTS - 1) :
        /\ c \notin busy_ports
        /\ \A k \in DOMAIN forward_list : forward_list[k].local # c}

\* Two processes allocate for two distinct devices, neither of which has a
\* forwarding yet, while at least two candidate ports are free.
InitTwoDevices ==
    /\ InitPorts
    /\ alloc[1].device_id # alloc[2].device_id
    /\ \A k \in DOMAIN forward_list : forward_list[k].device \notin Devices
    /\ Cardinality(FreeCandidates) >= 2

\* With a free candidate for each process no search fails while holding the
\* lock, so no lock socket is left to the interpreter.
NextTwoDevices ==
    \E proc \in Procs :
        \/ Ports(bind_lock(proc))
        \/ Ports(read_forward_list(proc))
        \/ Ports(find_port(proc))
        \/ Ports(close_lock(proc))
        \/ Ports(connect_socket(proc))

SpecTwoDevices == InitTwoDevices /\ [][NextTwoDevices]_vars

\* The interpreter goes on running the operation: a step that can be taken
\* is taken.
SpecReceiveFair == SpecReceive /\ WF_vars(NextReceive)

\* do_capture with bursts of requests of various exposure times, with and
\* without a repeating request.
ExposureTimes ==
    {SEC_TO_NSEC \div 2, SEC_TO_NSEC - 1, SEC_TO_NSEC + SEC_TO_NSEC \div 2,
     LongExposure * SEC_TO_NSEC}

CallTimed ==
    /\ op = "None"
    /\ \E cap_request \in CapRequests({NoExp} \cup {Exposure(ns) : ns \in ExposureTimes}, MaxBurst),
          reprocess_format \in {"None", "yuv"},
          repeat_request \in {"None", "request", "empty"} :
            do_capture(cap_request, [kind |-> "dict", surfs |-> <<Surface("yuv", NoCam, 1, MaxDim)>>],
                       reprocess_format, repeat_request)

NextTimeout == Session(CallTimed) \/ Session(Receive) \/ Session(socket_closed)

SpecTimeout == InitCapture /\ [][NextTimeout]_vars

\* ------------------------------------------------------------ properties: do_capture

\* do_capture passed its checks and sent its command.
Accepted == op = "do_capture" /\ sockOut # <<>>

\* do_capture raised CameraItsError before writing anything to the socket.
RejectedBeforeSend ==
    op = "do_capture" /\ pc = "idle" /\ outcome = "CameraItsError" /\ sockOut = <<>>

Surfs == cmd.outputSurfaces

AllNameFormat == \A k \in DOMAIN Surfs : Surfs[k].format # NoFormat

\* A surface that names both its width and its height, or neither.
SizedOrDefault(s) == (s.width = 0) = (s.height = 0)

\* The buffer-size bucket of a YUV surface as the specification states it.
Bucket(s) ==
    IF s.width # 0 /\ s.height # 0 THEN (s.width * s.height * 3) \div 2
    ELSE (MaxYuvSize(props)[1] * MaxYuvSize(props)[2] * 3) \div 2

YuvCollision(j, k) ==
    /\ j # k
    /\ Surfs[j].format = "yuv" /\ Surfs[k].format = "yuv"
    /\ SurfaceCam(Surfs[j]) = SurfaceCam(Surfs[k])
    /\ SizedOrDefault(Surfs[j]) /\ SizedOrDefault(Surfs[k])
    /\ Bucket(Surfs[j]) = Bucket(Surfs[k])

RepeatedFormat(j, k) ==
    /\ j # k
    /\ Surfs[j].format # "yuv"
    /\ Surfs[j].format = Surfs[k].format
    /\ SurfaceCam(Surfs[j]) = SurfaceCam(Surfs[k])

\* C2: a call whose surfaces all name their format and among which two YUV
\* surfaces of one camera fall into the same buffer-size bucket is rejected
\* with CameraItsError, and nothing has been written to the socket.
C2_SameBucketRejected ==
    (op = "do_capture" /\ cmd.surfKind # "None" /\ AllNameFormat
        /\ \E j, k \in DOMAIN Surfs : YuvCollision(j, k))
    => RejectedBeforeSend

\* C2, its case: two YUV surfaces of different dimensions and equal product,
\* rejected.
C2_Witness ==
    /\ RejectedBeforeSend
    /\ props.available
    /\ Len(Surfs) = 2
    /\ YuvCollision(1, 2)
    /\ Surfs[1].width # 0
    /\ Surfs[1].width # Surfs[2].width

BufferOf(j, i) == ImageFrame(j, i).buf

\* The object the caller is owed for surface j and capture i: the stream's
\* i-th buffer (none for a private surface) with the metadata of the i-th
\* captureResults frame, of the surface's camera.
Owed(obj, j, i) ==
    LET cam == SurfaceCam(Surfs[j])
        reported == {physical_mds[i][k].cam : k \in DOMAIN physical_mds[i]}
    IN  /\ "data" \in DOMAIN obj <=> Surfs[j].format # "priv"
        /\ "data" \in DOMAIN obj => obj.data = BufferOf(j, i)
        /\ "metadata" \in DOMAIN obj <=> (cam = camera_id \/ cam \in reported)
        /\ cam = camera_id => obj.metadata = CaptureResultOf(i)
        /\ (cam # camera_id /\ cam \in reported) => obj.metadata = PhysicalResultOf(cam, i)

\* C1: once the device has produced every frame of a command with at least
\* one surface (each stream in capture order, the streams interleaved in any
\* way), do_capture has returned, and the object for surface j and capture i
\* holds stream j's i-th buffer and capture i's metadata.
C1_EveryBufferDelivered ==
    (Accepted /\ Len(Surfs) >= 1 /\ DeviceDone)
    => /\ pc = "idle" /\ outcome = "returned"
       /\ \A j \in DOMAIN Surfs : \A i \in 1..Ncap : Owed(ret.rets[j][i], j, i)

\* C4 as stated: the nesting of the returned value is a single object when
\* N = 1 and M = 1, M objects when N = 1 and M > 1, and N lists of M objects
\* otherwise.
C4_ShapeByCountsOnly ==
    (op = "do_capture" /\ outcome = "returned")
    => ret.shape = IF Len(Surfs) = 1 /\ Ncap = 1 THEN <<>>
                   ELSE IF Len(Surfs) = 1 THEN <<Ncap>>
                   ELSE <<Len(Surfs), Ncap>>

\* C4, amended: with N = 1 and M = 1 the value is a single object when the
\* request was passed bare and a list of one object when it was passed as a
\* list; with N = 1 and M > 1 it is a list of M objects; with N > 1 it is a
\* list of N entries, each one object when M = 1 and a list of M objects when
\* M > 1.  How the surfaces were passed plays no part.
C4_Shape ==
    (op = "do_capture" /\ outcome = "returned")
    => ret.shape = IF Len(Surfs) = 1 /\ Ncap = 1
                   THEN (IF cmd.capIsList THEN <<1>> ELSE <<>>)
                   ELSE IF Len(Surfs) = 1 THEN <<Ncap>>
                   ELSE IF Ncap = 1 THEN <<Len(Surfs)>>
                   ELSE <<Len(Surfs), Ncap>>

\* C4, its case: one surface passed as a list, one request passed as a list.
C4_Witness ==
    /\ op = "do_capture" /\ outcome = "returned"
    /\ cmd.surfKind = "list" /\ Len(Surfs) = 1
    /\ cmd.capIsList /\ Ncap = 1
    /\ ret.shape = <<1>>

\* C5: a returned object carries the width and height its surface asked for.
C5_ReturnedSizeIsRequested ==
    (op = "do_capture" /\ outcome = "returned")
    => \A j \in DOMAIN Surfs : \A i \in 1..Ncap :
          (Surfs[j].width # 0 /\ Surfs[j].height # 0)
          => /\ ret.rets[j][i].width = Surfs[j].width
             /\ ret.rets[j][i].height = Surfs[j].height

\* C6: the loop does not end before nsurf * ncap buffers and ncap metadata
\* frames are counted, and once the device has produced exactly the frames of
\* a command with at least one surface the loop has ended and do_capture has
\* returned with exactly these counts.
C6_LoopEndsWithLastFrame ==
    (Accepted /\ Len(Surfs) >= 1)
    => /\ pc = "idle" => (nbufs >= Ncap * Nsurf /\ Len(mds) >= Ncap)
       /\ DeviceDone => /\ pc = "idle" /\ outcome = "returned"
                        /\ nbufs = Ncap * Nsurf
                        /\ Len(mds) = Ncap

\* C7: the frames read so far of a stream of a non-YUV, non-private format,
\* whether its tag is bare or carries the id of the physical camera, are the
\* collection of its camera and format, and each counts as one buffer.
C7_FormatFramesCollected ==
    (Accepted /\ outcome \in {"none", "returned"})
    => \A j \in DOMAIN Surfs :
          Surfs[j].format \notin {"yuv", "priv"}
          => /\ bufs[SurfaceCam(Surfs[j])][FormatsOf(Surfs)[j]]
                    = [i \in 1..dev.img[j] |-> BufferOf(j, i)]
             /\ nbufs >= dev.img[j]

\* C8: in a returned result, a surface of the session's camera has capture
\* i's captureResult; a surface of a physical camera has that camera's entry
\* of capture i's physicalResults, and no metadata field when there is none.
C8_MetadataOfCameraAndCapture ==
    (op = "do_capture" /\ outcome = "returned")
    => \A j \in DOMAIN Surfs : \A i \in 1..Ncap :
          LET obj == ret.rets[j][i]
              cam == SurfaceCam(Surfs[j])
              reported == {physical_mds[i][k].cam : k \in DOMAIN physical_mds[i]}
          IN  /\ cam = camera_id
                    => ("metadata" \in DOMAIN obj /\ obj.metadata = CaptureResultOf(i))
              /\ (cam # camera_id /\ cam \in reported)
                    => ("metadata" \in DOMAIN obj /\ obj.metadata = PhysicalResultOf(cam, i))
              /\ (cam # camera_id /\ cam \notin reported) => "metadata" \notin DOMAIN obj

\* C8, its case: a burst on a physical camera whose result is missing from
\* the first capture's physicalResults and present in the second's, next to
\* another camera's.
C8_Witness ==
    /\ op = "do_capture" /\ outcome = "returned"
    /\ Ncap = 2
    /\ \E j \in DOMAIN Surfs :
          /\ Surfs[j].physicalCamera # NoCam
          /\ "metadata" \notin DOMAIN ret.rets[j][1]
          /\ "metadata" \in DOMAIN ret.rets[j][2]
          /\ physical_mds[1] # <<>>
          /\ Len(physical_mds[2]) = 2

\* The buffers stored in the collections.
Stored ==
    UNION {Range(bufs[c][f]) : c \in DOMAIN bufs, f \in BufFormats}
    \cup UNION {UNION {Range(yuv_bufs[c][z]) : z \in DOMAIN yuv_bufs[c]} : c \in DOMAIN yuv_bufs}

RECURSIVE SumTo(_, _)
SumTo(f, n) == IF n = 0 THEN 0 ELSE f[n] + SumTo(f, n - 1)

PrivateFramesRead ==
    SumTo([j \in DOMAIN Surfs |-> IF Surfs[j].format = "priv" THEN dev.img[j] ELSE 0],
          Len(Surfs))

\* C9: every private image frame read adds one to nbufs, none of their
\* buffers is stored, and the object returned for a private surface has no
\* data field.
C9_PrivateCountedNotStored ==
    (Accepted /\ outcome \in {"none", "returned"})
    => /\ nbufs = Cardinality(Stored) + PrivateFramesRead
       /\ \A b \in Stored : Surfs[b.id[1]].format # "priv"
       /\ outcome = "returned"
            => \A j \in DOMAIN Surfs : \A i \in 1..Ncap :
                  Surfs[j].format = "priv" => "data" \notin DOMAIN ret.rets[j][i]

\* C9, its case: a returned burst of private images next to another stream.
C9_Witness ==
    /\ op = "do_capture" /\ outcome = "returned"
    /\ Ncap = 2 /\ Len(Surfs) = 2
    /\ Surfs[1].format = "priv"
    /\ nbufs = 4
    /\ Cardinality(Stored) = 2

\* ------------------------------------------------------------ properties: the socket timeout

\* C10: whenever no operation is running, whether the last one returned or
\* raised, the socket's timeout is the baseline SOCK_TIMEOUT.
C10_TimeoutAtBaselineBetweenOperations ==
    pc = "idle" => sockTimeout = SOCK_TIMEOUT

\* The longest exposure time the burst's requests declare, 0 when none does.
DeclaredExposureTimes ==
    {cmd.captureRequests[k].exposureTime :
        k \in {i \in DOMAIN cmd.captureRequests : cmd.captureRequests[i].hasExposureTime}}

LongestDeclared ==
    IF DeclaredExposureTimes = {} THEN 0
    ELSE CHOOSE x \in DeclaredExposureTimes : \A y \in DeclaredExposureTimes : y <= x

\* C11: while do_capture waits for its frames the socket's timeout is
\* SOCK_TIMEOUT plus the whole seconds of the longest declared exposure time
\* plus EXTRA_SOCK_TIMEOUT exactly when a repeating request was given, and
\* this timeout was already in force when the command line was written.
C11_TimeoutWhileCapturing ==
    pc = "do_capture"
    => /\ \E secs \in 0..LongExposure :
            /\ secs * SEC_TO_NSEC <= LongestDeclared
            /\ LongestDeclared - secs * SEC_TO_NSEC < SEC_TO_NSEC
            /\ sockTimeout = SOCK_TIMEOUT + secs
                    + (IF cmd.repeat = "request" THEN EXTRA_SOCK_TIMEOUT ELSE 0)
       /\ sockOut = <<Line(cmd.cmdName, sockTimeout)>>

\* C11, its case: a burst whose longest exposure time is a second and a half
\* and is not its last request's, with a repeating request.
C11_Witness ==
    /\ pc = "do_capture"
    /\ Len(cmd.captureRequests) = 2
    /\ cmd.captureRequests[1] = Exposure(SEC_TO_NSEC + SEC_TO_NSEC \div 2)
    /\ cmd.captureRequests[2] = Exposure(SEC_TO_NSEC \div 2)
    /\ cmd.repeat = "request"
    /\ sockTimeout = SOCK_TIMEOUT + 1 + EXTRA_SOCK_TIMEOUT
    /\ dev.img[1] = 1

\* C12: while a recording waits for its recordingResponse the socket's
\* timeout is at least SOCK_TIMEOUT plus the recording duration it asked for.
C12_TimeoutCoversRecording ==
    pc \in {"do_basic_recording", "do_preview_recording"}
    => sockTimeout >= SOCK_TIMEOUT + sockOut[1].recordingDuration

\* The tag each single-response operation expects.
ExpectedTag(o) ==
    CASE o = "open_camera" -> "cameraOpened"
      [] o = "close_camera" -> "cameraClosed"
      [] o = "get_camera_properties" -> "cameraProperties"
      [] o = "start_sensor_events" -> "sensorEventsStarted"
      [] o = "get_sensor_events" -> "sensorEvents"
      [] o = "get_camera_ids" -> "cameraIds"
      [] o = "is_primary_camera" -> "primaryCamera"
      [] o = "get_supported_preview_sizes" -> "supportedPreviewSizes"
      [] o = "get_display_size" -> "displaySize"
      [] o = "do_vibrate" -> "vibrationStarted"
      [] o = "set_audio_restriction" -> "audioRestrictionSet"
      [] o = "do_basic_recording" -> "recordingResponse"
      [] o = "do_preview_recording" -> "recordingResponse"
      [] o = "measure_camera_launch_ms" -> "cameraLaunchMs"
      [] OTHER -> "None"

SingleResponseOperations ==
    {"open_camera", "close_camera", "get_camera_properties", "start_sensor_events",
     "get_sensor_events", "get_camera_ids", "is_primary_camera", "get_supported_preview_sizes",
     "get_display_size", "do_vibrate", "set_audio_restriction", "do_basic_recording",
     "do_preview_recording", "measure_camera_launch_ms"}

\* C13: a single-response operation writes one command line and then reads
\* one response frame; it returns only on a frame that carries its expected
\* tag, and a frame with any other tag makes it raise CameraItsError and
\* return nothing. (An operation that rejects its arguments writes nothing
\* and reads nothing.)
C13_OneLineOneFrameExpectedTag ==
    op \in SingleResponseOperations
    => /\ Len(sockOut) <= 1
       /\ nread <= 1
       /\ pc = op => Len(sockOut) = 1 /\ nread = 0
       /\ nread = 1 => Len(sockOut) = 1 /\ pc = "idle"
       /\ outcome = "returned"
          => /\ pc = "idle"
             /\ nread = 1
             /\ response.tag = ExpectedTag(op)
             /\ ret = ValueOf(response)
       /\ nread = 1 /\ response.tag # ExpectedTag(op)
          => outcome = "CameraItsError" /\ ret = NoRet

C13_Witness ==
    /\ op = "set_audio_restriction"
    /\ pc = "idle"
    /\ outcome = "returned"
    /\ Len(sockOut) = 1
    /\ sockOut[1].cmdName = "setAudioRestriction"
    /\ nread = 1
    /\ response.tag = "audioRestrictionSet"

\* C15: at most one command is in flight. An operation writes one command
\* line and nothing more until it has returned or raised: the lines written
\* since the session began never exceed the operations completed by more than
\* one, the two are equal between operations, and they differ by one while an
\* operation waits for its frames.
C15_OneCommandInFlight ==
    /\ nsent <= ncompleted + 1
    /\ Len(sockOut) <= 1
    /\ pc = "idle" => nsent = ncompleted
    /\ pc # "idle" => nsent = ncompleted + 1 /\ Len(sockOut) = 1

C15_Witness ==
    /\ pc = "do_3a"
    /\ nread = MaxReads - 1
    /\ nsent = MaxCommands
    /\ ncompleted = MaxCommands - 1
    /\ Len(sockOut) = 1

\* ------------------------------------------------------------ properties: __read_response_from_socket

\* The read has consumed the stream from where it began through the first
\* newline, and no further.
ConsumedOneLine ==
    /\ rd.chars = SubSeq(stream, rd.start + 1, rd.start + Len(rd.chars))
    /\ rd.chars # <<>>
    /\ rd.chars[Len(rd.chars)] = "\n"
    /\ \A k \in 1..(Len(rd.chars) - 1) : rd.chars[k] # "\n"

\* C16: a line without bufValueSize: the read returns the decoded object and
\* no buffer, and has consumed the bytes of the line through its newline and
\* nothing after it, so that the next frame's first byte is still unread.
C16_NoPayloadNothingBeyondNewline ==
    rd.at = "returned" /\ ~rd.jobj.hasSize
    => /\ ~rd.hasBuf
       /\ rd.buf = <<>>
       /\ ConsumedOneLine
       /\ pos = rd.start + Len(rd.chars)
       /\ rd.jobj.ok
       /\ rd.jobj.tag = TagOfChar(stream[rd.start + 2])

C16_Witness ==
    /\ rd.at = "returned"
    /\ ~rd.jobj.hasSize
    /\ rd.jobj.tag = "vibrationStarted"
    /\ pos < Len(stream)
    /\ stream[pos + 1] = "{"

\* C17: a line that declares n payload bytes: the read returns one buffer of
\* exactly the n bytes that follow the newline, in the order of the stream,
\* however recv_into split them, and has consumed nothing after them; while
\* it reads, what it holds and what it still wants add up to n.
C17_ExactlyDeclaredPayload ==
    LET k == rd.start + Len(rd.chars)
        size == rd.jobj.bufValueSize
    IN  /\ rd.at = "payload"
           => /\ rd.n > 0
              /\ Len(rd.buf) + rd.n = size
              /\ rd.buf = SubSeq(stream, k + 1, k + Len(rd.buf))
              /\ pos = k + Len(rd.buf)
        /\ rd.at = "returned" /\ rd.jobj.hasSize
           => /\ rd.hasBuf
              /\ ConsumedOneLine
              /\ Len(rd.buf) = size
              /\ rd.buf = SubSeq(stream, k + 1, k + size)
              /\ pos = k + size
              /\ rd.n = 0

C17_Witness ==
    /\ rd.at = "returned"
    /\ rd.jobj.hasSize
    /\ rd.jobj.bufValueSize = MaxPayload
    /\ rd.buf[1] = "\n"
    /\ pos < Len(stream)
    /\ stream[pos + 1] = "{"

\* C18: when the device has closed the connection and the line is not
\* complete, whether or not part of it was read, the read raises
\* CameraItsError without an object, and the operation that called it ends
\* with that error and no value.
C18_ClosedBeforeLineRaises ==
    [][/\ rd.at = "line" /\ closed /\ Available = 0
          => /\ rd'.at = "raised"
             /\ rd'.err = "CameraItsError"
             /\ rd'.jobj = NoJobj
             /\ ~rd'.hasBuf
       /\ rd.at = "raised" /\ rd.err = "CameraItsError"
          => /\ pc' = "idle"
             /\ outcome' = "CameraItsError"
             /\ ret' = NoRet]_vars

C18_Witness ==
    /\ rd.at = "raised"
    /\ rd.err = "CameraItsError"
    /\ rd.chars = <<"{", "v", "#">>

\* C19: the device closes the connection after a line that declares a
\* payload and before all of the payload was delivered: the read raises
\* CameraItsError; it neither returns a short buffer nor reads on for ever.
C19_ClosedMidPayloadRaises ==
    /\ [](rd.at = "returned" /\ rd.jobj.hasSize => Len(rd.buf) = rd.jobj.bufValueSize)
    /\ (rd.at = "payload" /\ closed /\ Available = 0)
       ~> (rd.at = "raised" /\ rd.err = "CameraItsError")

\* C14: every command that was sent ends: the operation that sent it returns
\* or raises.
C14_EveryCommandEnds == (pc # "idle") ~> (pc = "idle")

\* ------------------------------------------------------------ properties: __init_socket_port

\* The process has bound the lock port and not yet released it.
HoldsLock(proc) ==
    \/ alloc[proc].at \in {"list", "find", "close"}
    \/ alloc[proc].at = "raised" /\ proc \in lock_port

\* C20: port allocation is mutually exclusive: no two processes are at the
\* same time between their bind of the lock port and its release, so the
\* forwarding list is read and extended by one process at a time.
C20_AllocationMutuallyExclusive ==
    /\ \A p1, p2 \in Procs : HoldsLock(p1) /\ HoldsLock(p2) => p1 = p2
    /\ \A p1 \in Procs : HoldsLock(p1) <=> p1 \in lock_port

C20_Witness ==
    \E p1, p2 \in Procs :
        /\ alloc[p1].at = "find"
        /\ alloc[p1].p = CLIENT_PORT_START + 1
        /\ alloc[p2].at = "bind"
        /\ alloc[p2].i = num_retries - 1

\* C21: when two processes allocate concurrently for two distinct devices and
\* at least two candidate ports are free, both allocations succeed under every
\* interleaving: no process ends with an error.
C21_BothAllocationsSucceed ==
    \A proc \in Procs : alloc[proc].at # "raised"

\* C22: once the lock port has been bound, the allocation releases it on every
\* outcome: an allocation that has ended, with a port or with the error of a
\* search that found no candidate, no longer holds the lock port.
C22_LockReleasedOnEveryOutcome ==
    \A proc \in Procs :
        alloc[proc].at \in {"connected", "raised"} => proc \notin lock_port

\* The allocation of this process gave up on the lock.
LockNotAcquired(proc) ==
    alloc[proc].at = "raised" /\ alloc[proc].msg = "socket lock returns error"

\* C23: lock acquisition makes at most num_retries bind attempts (100 in the
\* source): the attempt that binds goes on to read the forwarding list, a
\* failed attempt before the last is followed by another attempt, and the
\* failure of the last attempt raises CameraItsError; the allocation that
\* gave up has neither read nor changed the forwardings and does nothing more.
C23_BoundedLockAcquisition ==
    [][\A proc \in Procs :
        /\ alloc[proc].at = "bind" => alloc[proc].i < num_retries
        /\ (alloc[proc].at = "bind" /\ alloc'[proc] # alloc[proc]) =>
              IF lock_port = {} /\ ~PortInUse(LOCK_PORT)
              THEN alloc'[proc].at = "list" /\ lock_port' = {proc}
              ELSE /\ forward_list' = forward_list
                   /\ lock_port' = lock_port
                   /\ IF alloc[proc].i + 1 < num_retries
                      THEN alloc'[proc] = [alloc[proc] EXCEPT !.i = @ + 1]
                      ELSE LockNotAcquired(proc)'
        /\ LockNotAcquired(proc) =>
              /\ alloc'[proc] = alloc[proc]
              /\ alloc[proc].i = num_retries - 1
              /\ alloc[proc].port = NoPort /\ alloc[proc].used_ports = <<>>
              /\ proc \notin lock_port
    ]_vars

\* Every attempt of a process failed while the other one held the lock, and
\* the process raised.
C23_Witness ==
    \E proc \in Procs : LockNotAcquired(proc) /\ alloc[proc].i = num_retries - 1

\* The lines of the list that forward a local port to the remote control
\* port for the device.
ExistingForwards(device) ==
    {k \in DOMAIN forward_list :
        /\ forward_list[k].device = device
        /\ forward_list[k].remote_tcp /\ forward_list[k].remote = REMOTE_PORT}

\* The allocation of the process has a port: it goes on to close the lock
\* and to connect.
HasPort(a) == a.at \in {"close", "connect", "connected"}

\* C24: if the list already forwards a local port to REMOTE_PORT for the
\* device of the session, no forwarding rule is added or changed, and the
\* allocation that gets a port gets the local port of the first such line,
\* whatever the other lines are and wherever the line stands.
C24_ExistingForwardingReused ==
    [][\A proc \in DOMAIN alloc :
        LET here == ExistingForwards(alloc[proc].device_id)
            first == CHOOSE k \in here : \A j \in here : k <= j
        IN  here # {} =>
              /\ forward_list' = forward_list
              /\ HasPort(alloc'[proc]) => alloc'[proc].port = forward_list[first].local
    ]_vars

\* A session connected to the port of the second line of the list, the
\* forwarding the device had, without having tried a candidate.
C24_Witness ==
    \E proc \in DOMAIN alloc :
        /\ alloc[proc].at = "connected"
        /\ Len(forward_list) = 2
        /\ ExistingForwards(alloc[proc].device_id) = {2}
        /\ alloc[proc].port = CLIENT_PORT_START + 1
        /\ alloc[proc].p = CLIENT_PORT_START
        /\ alloc[proc].used_ports = <<forward_list[1].local>>

\* The local ports the list shows as forwarded.
ListedPorts == {forward_list[k].local : k \in DOMAIN forward_list}

\* The search of this allocation ended without a port.
NoPortFound(a) == a.at = "raised" /\ a.msg = " cannot find an available port"

\* C25: for a device with no forwarding, the search picks the lowest port of
\* the candidate range that is not the local port of a line of the list and
\* that adb forwards without an error, so never a port forwarded for another
\* device; when no candidate qualifies it raises CameraItsError and the
\* allocation never connects.
C25_LowestUnlistedCandidate ==
    [][\A proc \in DOMAIN alloc :
        LET a == alloc[proc]
            candidates == CLIENT_PORT_START..(CLIENT_PORT_START + MAX_NUM_PORTS - 1)
            qualifies == {c \in candidates : c \notin ListedPorts /\ c \notin busy_ports}
        IN  /\ (a.at = "find" /\ HasPort(alloc'[proc])) =>
                  /\ alloc'[proc].port \in qualifies
                  /\ \A c \in qualifies : alloc'[proc].port <= c
            /\ (a.at = "find" /\ NoPortFound(alloc'[proc])) => qualifies = {}
            /\ NoPortFound(a) => alloc'[proc] = a
    ]_vars

\* C26: the lock port is never used as a data port: whatever list the
\* allocator reads, the port it goes on to connect to is not LOCK_PORT.
C26_LockPortNeverDataPort ==
    \A proc \in DOMAIN alloc :
        HasPort(alloc[proc]) => alloc[proc].port # LOCK_PORT

\* A session connected to the last port of the candidate range, the one next
\* to the lock port, which the list gave for its device.
C26_Witness ==
    \E proc \in DOMAIN alloc :
        /\ alloc[proc].at = "connected"
        /\ ExistingForwards(alloc[proc].device_id) # {}
        /\ alloc[proc].port = LOCK_PORT - 1

\* do_3a has just read the frame d.
Read3A(d) == pc = "do_3a" /\ nread' = nread + 1 /\ response' = d

\* do_3a has ended on a '3aDone' frame.
Done3A == pc = "idle" /\ op = "do_3a" /\ response.tag = "3aDone"

\* C27: with AE, AWB and AF triggered and results requested, do_3a keeps
\* from each result frame the values it carries (two integers of aeResult,
\* the first four and the remaining numbers of awbResult, the first number
\* of afResult), and '3aDone' after the three results and '3aConverged', in
\* whatever order they came, makes it return those five values.
C27_FullSequenceReturnsResults ==
    [][LET l == locals3a
       IN  /\ (l.do_ae /\ Read3A([tag |-> "aeResult", strValue |-> "1 2"])) =>
                 /\ pc' = "do_3a" /\ converged' = converged
                 /\ locals3a' = [l EXCEPT !.ae_sens = Some(<<1>>), !.ae_exp = Some(<<2>>)]
           /\ Read3A([tag |-> "awbResult", strValue |-> "1 2 3 4 5"]) =>
                 /\ pc' = "do_3a" /\ converged' = converged
                 /\ locals3a' = [l EXCEPT !.awb_gains = Some(<<1, 2, 3, 4>>),
                                          !.awb_transform = Some(<<5>>)]
           /\ (l.do_af /\ Read3A([tag |-> "afResult", strValue |-> "1 2"])) =>
                 /\ pc' = "do_3a" /\ converged' = converged
                 /\ locals3a' = [l EXCEPT !.af_dist = Some(<<1>>)]
           /\ Read3A([tag |-> "3aConverged", strValue |-> ""]) =>
                 pc' = "do_3a" /\ converged' /\ locals3a' = l
           /\ ( /\ Read3A([tag |-> "3aDone", strValue |-> ""])
                /\ l.do_ae /\ l.do_awb /\ l.do_af /\ l.get_results
                /\ converged
                /\ ~l.ae_sens.none /\ ~l.awb_gains.none /\ ~l.af_dist.none ) =>
                 /\ pc' = "idle" /\ outcome' = "returned"
                 /\ ret'.rets = <<[ae_sens |-> l.ae_sens, ae_exp |-> l.ae_exp,
                                    awb_gains |-> l.awb_gains,
                                    awb_transform |-> l.awb_transform,
                                    af_dist |-> l.af_dist]>>
    ]_vars

\* do_3a with every trigger and get_results read five frames, the last one
\* '3aDone', and returned the values of aeResult "1 2", awbResult
\* "1 2 3 4 5" and afResult "1 2".
C27_Witness ==
    /\ Done3A /\ nread = 5
    /\ locals3a.do_ae /\ locals3a.do_awb /\ locals3a.do_af /\ locals3a.get_results
    /\ ~locals3a.mono_camera
    /\ outcome = "returned"
    /\ ret.rets = <<[ae_sens |-> Some(<<1>>), ae_exp |-> Some(<<2>>),
                      awb_gains |-> Some(<<1, 2, 3, 4>>), awb_transform |-> Some(<<5>>),
                      af_dist |-> Some(<<1>>)]>>

\* C28: when results were requested, do_3a that reaches '3aDone' without
\* having read '3aConverged' raises CameraItsError and returns nothing, even
\* if every requested result was received.
C28_DoneWithoutConvergedRaises ==
    (Done3A /\ locals3a.get_results /\ ~converged) =>
        outcome = "CameraItsError" /\ ret = NoRet

\* Every trigger and get_results, the three results received, no
\* '3aConverged': '3aDone' made do_3a raise.
C28_Witness ==
    /\ Done3A /\ ~converged
    /\ locals3a.do_ae /\ locals3a.do_awb /\ locals3a.do_af /\ locals3a.get_results
    /\ ~locals3a.ae_sens.none /\ ~locals3a.awb_gains.none /\ ~locals3a.af_dist.none
    /\ outcome = "CameraItsError"

\* The frames of the loop that are not '3aDone'.
PollingTags == {"aeResult", "afResult", "awbResult", "3aConverged"}

\* C29: in the polling loop of do_3a a result frame whose values parse and
\* a '3aConverged' frame never end polling; the first '3aDone' always ends
\* it, whether or not '3aConverged' was read; and do_3a reads no frame after
\* '3aDone': while it polls, the last frame it read is not '3aDone'.
C29_OnlyDoneEndsPolling ==
    [][\A d \in Frames3A :
        /\ (Read3A(d) /\ d.tag \in PollingTags /\ ParseError3A(d, locals3a) = "ok") =>
              pc' = "do_3a"
        /\ (Read3A(d) /\ d.tag = "3aDone") => pc' = "idle"
        /\ Read3A(d) => (nread > 0 => response.tag \in PollingTags)
    ]_vars

\* do_3a went on polling after '3aConverged' and two more frames, and the
\* fourth frame, '3aDone', ended it.
C29_Witness ==
    Done3A /\ nread = 4 /\ converged /\ ~locals3a.awb_gains.none /\ ~locals3a.af_dist.none

\* C30: after the loop, do_3a raises CameraItsError whenever an algorithm
\* requested by its trigger flag (AE by do_ae, AF by do_af) has no result,
\* whatever get_results and converged are; it returns only when the result
\* of every requested algorithm was received.
C30_MissingRequestedResultRaises ==
    (Done3A /\ ( \/ locals3a.do_ae /\ locals3a.ae_sens.none
                 \/ locals3a.do_af /\ locals3a.af_dist.none )) =>
        outcome = "CameraItsError"

\* ------------------------------------------------------------ the session as a context

\* Sessions constructed with and without a camera id, under every command
\* line.
CameraIdsGiven == {NoCameraId, IntZero, camera_id, "1"}
Argvs == {<<>>, <<"1">>, <<"1.2">>, <<"1", "1.2">>}

InitContext ==
    /\ SessionFields({NoProps}, {NoCam, "3"})
    /\ ChannelIdle
    /\ PortsIdle
    /\ sock = "open"
    /\ self_camera_id \in CameraIdsGiven
    /\ argv \in Argvs
    /\ opened = <<self_camera_id>>
    /\ helper = NoHelper
    /\ wire = NoWire

ContextResponses == [tag : {"cameraOpened", "cameraClosed", "error"}, strValue : {""}]

\* The step wrote an 'open' command.
OpenWritten == LinesWritten > 0 /\ sockOut'[Len(sockOut')].cmdName = "open"

\* A step of __enter__, __exit__ or __open_camera, made while the socket is
\* open, except that __exit__ may be called again.
Context(A) ==
    /\ A
    /\ opened' = IF OpenWritten THEN Append(opened, self_camera_id') ELSE opened
    /\ UNCHANGED <<otherVars, argv, helper, wire>>

NextContext ==
    \/ Context(sock = "open" /\ Len(opened) <= MaxOpens /\ enter /\ UNCHANGED sock)
    \/ \E data \in ContextResponses : Context(enter_closed(data) /\ UNCHANGED sock)
    \/ \E data \in ContextResponses : Session(enter_opened(data))
    \/ Context(sock = "open" /\ Len(opened) <= MaxOpens /\ open_camera /\ UNCHANGED sock)
    \/ \E data \in ContextResponses : Session(open_camera_response(data))
    \/ Session(sock = "open" /\ close_camera)
    \/ \E data \in ContextResponses : Session(close_camera_response(data))
    \/ Context(exit /\ UNCHANGED self_camera_id)
    \/ \E data \in ContextResponses : Context(exit_response(data) /\ UNCHANGED self_camera_id)
    \/ Session(socket_closed)

SpecContext == InitContext /\ [][NextContext]_vars

\* C31: leaving the session context closes the socket in every case: once
\* __exit__ has ended, whether it returned or raised, self.sock is closed.
C31_ExitClosesSocket == (pc = "idle" /\ op = "__exit__") => sock = "closed"

\* C32: an open-close round leaves the session ready for another open, for
\* any number of rounds: the timeout is the one the session began with, the
\* socket is open until __exit__ closes it, every open from the first on
\* leaves the same camera id and sends it, and an open answered by
\* cameraOpened returns.
C32_ReadyForAnotherOpen ==
    /\ sockTimeout = SOCK_TIMEOUT
    /\ sock = "closed" => op = "__exit__"
    /\ \A k \in 2..Len(opened) : opened[k] = opened[2]
    /\ pc \in {"open_camera", "__enter__:open"} =>
           /\ Len(opened) >= 2
           /\ sockOut[Len(sockOut)].cameraId = opened[2]
           /\ self_camera_id = opened[2]
    /\ (pc = "idle" /\ op = "open_camera" /\ response.tag = "cameraOpened") => outcome = "returned"
    /\ (pc = "idle" /\ op = "__enter__" /\ nread = 2 /\ response.tag = "cameraOpened") =>
           outcome = "returned"

\* Three opens were sent, the last two after a close that was answered, and
\* the last one returned.
C32_Witness ==
    /\ Len(opened) = 4
    /\ pc = "idle"
    /\ op = "__enter__"
    /\ outcome = "returned"
    /\ opened[1] # opened[2]

\* C32 as stated: the camera id after every open is the one the session had
\* before the first open.
C32_CameraIdAsBeforeFirstOpen == \A k \in DOMAIN opened : opened[k] = opened[1]

\* ------------------------------------------------------------ do_capture: mixed formats

\* Surfaces of every raw format, of both spellings of JPEG, and a YUV one.
FormatSurfaces ==
    {Surface(f, NoCam, 0, 0) : f \in {"dng", "raw", "raw10", "raw12", "rawStats", "jpg", "jpeg"}}
    \cup {Surface("yuv", NoCam, 1, MaxDim), Surface("jpeg", "2", 0, 0)}

CallFormats ==
    /\ op = "None"
    /\ \E out_surfaces \in OutSurfaces(FormatSurfaces, MaxFormats),
          reprocess_format \in {"None", "yuv"},
          repeat_request \in {"None", "request"} :
            do_capture([isList |-> FALSE, reqs |-> <<NoExp>>], out_surfaces,
                       reprocess_format, repeat_request)

\* Frames of the command the device has produced.
Produced == dev.md + SumTo(dev.img, Len(dev.img))

\* Frames that belong to no stream of the command: the service's error
\* response, and an image of a physical camera no surface names.
StrayFrames ==
    {[tag |-> [base |-> "error", suffix |-> NoSuffix], buf |-> NoBuf, objValue |-> NoObj],
     [tag |-> [base |-> "jpegImage", suffix |-> "9"],
      buf |-> [present |-> TRUE, id |-> <<0, 0>>, size |-> 0], objValue |-> NoObj]}

ReceiveStray ==
    /\ nread - Produced < MaxStray
    /\ \E frame \in StrayFrames : do_capture_loop(frame)
    /\ UNCHANGED dev

NextFormats == Session(CallFormats) \/ Session(Receive) \/ Session(ReceiveStray)

SpecFormats == InitCapture /\ [][NextFormats]_vars

\* The raw formats the surfaces of the call name.
RawNamed ==
    {Surfs[k].format : k \in DOMAIN Surfs} \cap {"dng", "raw", "raw10", "raw12", "rawStats"}

ReprocessAndRepeat == cmd.reprocessFormat # "None" /\ cmd.repeat # "None"

\* C33: a call of do_capture whose surfaces name more than one of dng, raw,
\* raw10, raw12 and rawStats is rejected before anything is sent, and so is
\* a call with a reprocess format and a repeating request; a call that names
\* at most one of them, and that no other test refuses, is sent.
C33_MixedRawRejected ==
    op = "do_capture"
    => /\ Cardinality(RawNamed) > 1 => RejectedBeforeSend
       /\ ReprocessAndRepeat => RejectedBeforeSend
       /\ ( /\ Cardinality(RawNamed) <= 1
            /\ ~ReprocessAndRepeat
            /\ \A j, k \in DOMAIN Surfs : ~RepeatedFormat(j, k) /\ ~YuvCollision(j, k) )
          => Accepted

\* C33, its case: raw10 next to dng, rejected.
C33_Witness ==
    /\ RejectedBeforeSend
    /\ ~ReprocessAndRepeat
    /\ Len(Surfs) = 2
    /\ Surfs[1].format = "raw10"
    /\ Surfs[2].format = "dng"

\* C35: in do_capture's receive loop a frame that is none of the command's,
\* its tag being neither captureResults nor the image tag of a requested
\* stream, makes do_capture raise CameraItsError.
C35_UnexpectedTagRaises ==
    (Accepted /\ nread > Produced) => (pc = "idle" /\ outcome = "CameraItsError")

\* C39: a call of do_capture with a 'jpg' surface and a 'jpeg' surface of
\* the same camera is rejected before anything is sent.
C39_JpgIsJpeg ==
    (op = "do_capture"
        /\ \E j, k \in DOMAIN Surfs :
              /\ Surfs[j].format = "jpg"
              /\ Surfs[k].format = "jpeg"
              /\ SurfaceCam(Surfs[j]) = SurfaceCam(Surfs[k]))
    => RejectedBeforeSend

\* C34: do_3a that ends on '3aDone' without having read '3aConverged' has
\* raised CameraItsError, with get_results true or false; when it read
\* '3aConverged' and results were not requested it has returned five None
\* values.
C34_NotConvergedRaises ==
    Done3A
    => /\ ~converged => (outcome = "CameraItsError" /\ ret = NoRet)
       /\ (converged /\ ~locals3a.get_results) =>
             /\ outcome = "returned"
             /\ ret.rets = <<[ae_sens |-> NoneValue, ae_exp |-> NoneValue,
                               awb_gains |-> NoneValue, awb_transform |-> NoneValue,
                               af_dist |-> NoneValue]>>

\* do_3a without get_results read an aeResult and '3aDone', no '3aConverged',
\* and raised.
C34_Witness ==
    /\ Done3A /\ nread = 2
    /\ ~locals3a.get_results /\ locals3a.do_ae
    /\ ~locals3a.ae_sens.none
    /\ ~converged
    /\ outcome = "CameraItsError"

\* C38: do_autoframing reads on after 'autoframingConverged', ends at the
\* first 'autoframingDone', returning if an 'autoframingConverged' came
\* before it and raising CameraItsError if none did, and raises
\* CameraItsError on a frame of any other tag.
C38_AutoframingPolling ==
    [][(pc = "do_autoframing" /\ nread' = nread + 1) =>
          /\ response'.tag = "autoframingConverged" =>
                (pc' = "do_autoframing" /\ converged' /\ outcome' = "none")
          /\ response'.tag = "autoframingDone" =>
                /\ pc' = "idle"
                /\ outcome' = IF converged THEN "returned" ELSE "CameraItsError"
          /\ response'.tag \notin {"autoframingConverged", "autoframingDone"} =>
                (pc' = "idle" /\ outcome' = "CameraItsError")
    ]_vars

\* do_autoframing read two 'autoframingConverged' frames and then
\* 'autoframingDone', and returned.
C38_Witness ==
    /\ pc = "idle" /\ op = "do_autoframing"
    /\ nread = 3
    /\ response.tag = "autoframingDone"
    /\ converged
    /\ outcome = "returned"

\* ------------------------------------------------------------ do_simple_capture: formats

SimpleSurfaces ==
    {Surface("jpeg", NoCam, 1, 1), Surface("jpg", NoCam, 1, 1), Surface("raw", NoCam, 1, 1),
     Surface("yuv", NoCam, 1, MaxDim)}

DeviceFormats == {"jpeg", "raw", "yuv"}

\* A device that may produce an image of another format than the surface's,
\* and report another format: its next frame, and the device after it, which
\* remembers the format it reported.
AnyFormatMoves ==
    LET s == cmd.outputSurfaces[1]
    IN  {[frame |-> [ImageFrame(1, 1) EXCEPT !.tag.base = TagBase(g)],
          dev |-> [dev EXCEPT !.img[1] = @ + 1]] :
            g \in {f \in DeviceFormats : dev.img[1] < SINGLE_CAPTURE_NCAP}}
        \cup
        {[frame |-> MetadataFrame(1, {}, <<[width |-> s.width, height |-> s.height,
                                             format |-> g]>>),
          dev |-> [img |-> dev.img, md |-> dev.md + 1, reported |-> g]] :
            g \in {f \in DeviceFormats : dev.md < SINGLE_CAPTURE_NCAP}}

CallSimple ==
    \E s \in SimpleSurfaces : do_capture_with_flash(s) \/ do_capture_with_extensions(s)

ReceiveAnyFormat ==
    /\ pc = "do_simple_capture"
    /\ \E d \in AnyFormatMoves : do_simple_capture_loop(d.frame) /\ dev' = d.dev

NextSimple == Session(CallSimple) \/ Session(ReceiveAnyFormat)

SpecSimple == InitCapture /\ [][NextSimple]_vars

\* C36: once the device has reported, in the captureResults frame, a format
\* other than the one requested for the surface, do_simple_capture has raised
\* AssertionError, whatever frame came first.
C36_FormatMismatchRaises ==
    (op = "do_simple_capture" /\ "reported" \in DOMAIN dev
        /\ dev.reported # SimpleFormat(cmd.outputSurfaces[1]))
    => (pc = "idle" /\ outcome = "AssertionError")

\* ------------------------------------------------------------ do_capture_with_latency

\* A step of do_capture_with_latency.
Helper(A) == A /\ UNCHANGED <<otherVars, sock, self_camera_id, argv, opened, wire>>

CallLatency ==
    /\ op = "None"
    /\ \E req \in {NoExp, Exposure(LongExposure * SEC_TO_NSEC)},
          sync_latency \in 0..MaxLatency,
          fmt \in OutSurfaces(ReceivedSurfaces, 1) :
            do_capture_with_latency(req, sync_latency, fmt)

ReceiveLatency ==
    \E d \in DeviceMoves : do_capture_with_latency_loop(d.frame) /\ dev' = d.dev

NextLatency == Helper(CallLatency) \/ Helper(ReceiveLatency)

SpecLatency == InitCapture /\ [][NextLatency]_vars

\* C37: do_capture_with_latency sends one command whose burst is
\* sync_latency + 1 copies of the request, and what it returns is a single
\* capture object, the one of the burst's last request: the last buffer of
\* the stream with the metadata of the last captureResults frame.
C37_LastCaptureOfBurst ==
    helper.name = "do_capture_with_latency"
    => /\ cmd.captureRequests = [i \in 1..(helper.sync_latency + 1) |-> helper.req]
       /\ Len(sockOut) <= 1
       /\ helper.outcome = "returned" =>
             /\ Len(sockOut) = 1
             /\ Len(Surfs) = 1
             /\ helper.ret.shape = <<>>
             /\ Owed(helper.ret.rets[1][1], 1, helper.sync_latency + 1)

\* C37, its case: the helper returned from a burst of three on a JPEG surface.
C37_Witness ==
    /\ helper.outcome = "returned"
    /\ helper.sync_latency = 2
    /\ Surfs[1].format = "jpeg"
    /\ nread = 6

\* ------------------------------------------------------------ frames left on the socket

\* The frames the service writes in answer to a command: one frame to
\* 'doVibrate'; to 'do3A' results, with or without values, '3aConverged' and
\* frames of another tag, up to '3aDone'.
FramesFor(cmdName) ==
    IF cmdName = "doVibrate" THEN [tag : {"vibrationStarted", "error"}, strValue : {""}]
    ELSE [tag : {"3aConverged", "3aDone", "error"}, strValue : {""}]
         \cup [tag : {"aeResult"}, strValue : {"", "1 2"}]

\* The frame that ends the answer to a command.
EndsAnswer(cmdName, frame) == cmdName = "doVibrate" \/ frame.tag = "3aDone"

\* The service writes one more frame of its answer to the last command; it
\* does not know whether the session still reads.
DeviceWrites ==
    /\ sockOut # <<>>
    /\ ~wire.done
    /\ Len(wire.queue) < MaxWire
    /\ \E frame \in FramesFor(sockOut[1].cmdName) :
          wire' = [wire EXCEPT !.queue = Append(@, [frame |-> frame, cmd |-> nsent]),
                               !.done = EndsAnswer(sockOut[1].cmdName, frame)]
    /\ UNCHANGED <<itsVars, otherVars, sock, self_camera_id, argv, opened, helper>>

\* The command reaches the service, which begins its answer.
CommandSent == [wire EXCEPT !.last = 0, !.done = FALSE]

\* __read_response_from_socket returns the oldest frame on the socket.
FrameRead == [wire EXCEPT !.queue = Tail(@), !.last = Head(wire.queue).cmd]

\* A step of a session whose command lines are numbered.
Wired(A) ==
    /\ A
    /\ nsent' = nsent + LinesWritten
    /\ UNCHANGED <<ncompleted, recvVars, portVars, sock, self_camera_id, argv, opened, helper>>

NextLeftover ==
    \/ Wired(nsent < MaxCommands /\ do_vibrate /\ wire' = CommandSent)
    \/ \E get_results \in BOOLEAN :
          Wired(nsent < MaxCommands /\ do_3a(TRUE, FALSE, FALSE, get_results, FALSE, "None")
                /\ wire' = CommandSent)
    \/ Wired(wire.queue # <<>> /\ do_vibrate_response(Head(wire.queue).frame)
             /\ wire' = FrameRead)
    \/ Wired(wire.queue # <<>> /\ nread < Max3AFrames /\ do_3a_loop(Head(wire.queue).frame)
             /\ wire' = FrameRead)
    \/ DeviceWrites

SpecLeftover == InitSession /\ [][NextLeftover]_vars

\* C40: the frame a command reads is one the device wrote in answer to that
\* command, never one left on the socket by an earlier command that failed.
C40_OnlyOwnFrames == wire.last \in {0, nsent}

====
